---- MODULE Spec2Model ----
(***************************************************************************)
(* Model of the collision classification pipeline and the steering law of  *)
(* the shoveit game.                                                       *)
(*                                                                         *)
(*   collision.rs  cache_collider_hierarchy, detect_collisions,            *)
(*                 become_tangible, Hooks::filter_contact_pair             *)
(*   main.rs       trigger_interaction, die_after_fall, move_player        *)
(*   level.rs      detect_loaded, init_cells, init_orb, cache_pit_locs     *)
(*   movement.rs   accelerate_orb                                          *)
(*                                                                         *)
(* Entities are numbered in the order they are spawned (an Entity id is    *)
(* never handed out twice).  A frame runs the systems in schedule order;   *)
(* the variable phase is the position in the frame.  The loop of           *)
(* detect_collisions is modelled one iteration per step: the contact event *)
(* read by an iteration is chosen when the iteration runs, which is the    *)
(* same as choosing the whole queue up front because nothing else runs     *)
(* during the pass.  The physics engine and the level loader are external: *)
(* the contact feed ranges over every pair of distinct collider entities   *)
(* that are alive or still named by the role cache, and the loader may     *)
(* report LevelEvent::Spawned with or without respawning the level.        *)
(***************************************************************************)
EXTENDS Integers, Sequences, FiniteSets, TLC

(* ------------------------------ bounds --------------------------------- *)
\* Spec plays one level: contact events read by one classification pass,
\* and pit-entry events dispatched in one behaviour
MaxContacts == 2
MaxFalls == 2
\* SpecReload respawns the level: level spawns in one behaviour, and the
\* contact events per pass and pit-entry events per behaviour it allows
MaxLoads == 2
ReloadContacts == 1
ReloadFalls == 1
\* LevelEvent::Spawned events reported in one frame
MaxSignals == 2
\* SpecClassify: contact events read by the classification pass
ClassifyContacts == 2
\* SpecSteer: headings in a full turn, and the longest frame time.  The unit
\* of time is the time a turn of one heading step takes at 4 PI rad/s
FullTurn == 8
MaxDt == 2
\* the highest linear speed, in units of ACCEL_V times the unit of time
MaxSpeed == 3
\* SpecScore: the longest finite distance, in distance units
MaxDistance == 8

VARIABLES
    tile,            \* Tile component: [tile entity -> "Wall" | "Pit"]
    actors,          \* entities that carry the Actor (Orb) component
    parent,          \* Parent of every live collider entity
    animator,        \* Animator component: [entity -> completion id of its tween]
    disabled,        \* entities that carry RigidBodyDisabled
    loads,           \* level spawns so far
    wall_colliders,  \* ColliderEntities.wall_colliders
    pit_colliders,   \* ColliderEntities.pit_colliders
    orb_colliders,   \* ColliderEntities.orb_colliders
    cacheEvents,     \* CacheEvent values not yet read by cache_collider_hierarchy
    fallen_orbs,     \* the local dedup set of the running detect_collisions pass
    output,          \* InteractionEvent values sent by the pass, in order
    outSrc,          \* for each element of output, the index of the contact that caused it
    nRead,           \* contact events read so far by the pass
    warnings,        \* warn! lines logged so far by the pass
    pitContacts,     \* actors with a pit contact read so far by the pass
    epochEntered,    \* pit-entry events sent for each entity since the latest rebuild
    completions,     \* AnimationCompletions: [next, killers]
    lastRebuilds,    \* rebuilds done by the latest run of cache_collider_hierarchy
    lastSignals,     \* InvalidateColliderHierarchy events read by that run
    lastIdle,        \* whether the scene was unchanged since the rebuild before it
    sceneChanged,    \* whether the scene changed since the latest rebuild
    phase,           \* position in the frame
    levelPits,       \* LevelPits: the Vec of pit locations
    lastPitRebuilds, \* rebuilds done by the latest run of cache_pit_locs
    facing,          \* Transform.rotation of the orb, in heading steps anticlockwise
    angvel,          \* Velocity.angvel of the orb, in heading steps per frame
    impulse,         \* ExternalImpulse.impulse of the orb: [dir, mag]
    lastCall,        \* inputs and outcome of the steering call of this frame
    linvel,          \* Velocity.linvel of the orb: [dir, mag]
    lastBrake,       \* inputs of the deceleration call of this frame
    steerPhase,      \* position in the frame of the steering systems
    run,             \* a run of steering calls with one goal and one frame time
    kind,            \* the Thinker of the AI orb: intransigence, cowardice or malice
    actor,           \* the AI orb: "orb", "falling" (Orb removed) or "gone" (despawned)
    playerPresent,   \* whether an entity with PlayerInput exists
    playerDist,      \* distance from the AI orb to the player, in distance units
    pitDist,         \* length of LevelPits::nearest_pit for the AI orb
    moving,          \* whether the Velocity of the AI orb is non-zero
    score,           \* Score of the scorers of the AI orb, in units of 1/ScoreOne
    ran,             \* scorer systems that ran in this frame
    picked,          \* the choice of the Thinker in this frame
    aiPhase,         \* position in the frame of the AI systems
    act,             \* the current action of the Thinker: ActionState and RelativeMove
    appState,        \* State<AppState>
    nextState,       \* NextState<AppState>: "None" or the state to enter
    schedule,        \* the schedule of the frame that is running
    ranSystems,      \* systems that ran so far in this frame
    queued,          \* commands queued in this schedule, not yet applied
    intangible,      \* the falling collider: "none", "marked" (Intangible) or "tangible"
    frames,          \* Intangible.frames of the falling collider
    markerSeen,      \* runs of become_tangible that found the Intangible marker
    lastContact      \* the latest physics step: "none", or what became of the
                     \* contact of the falling collider with a pit wall

collisionVars ==
    <<tile, actors, parent, animator, disabled, loads, wall_colliders,
      pit_colliders, orb_colliders, cacheEvents, fallen_orbs, output, outSrc,
      nRead, warnings, pitContacts, epochEntered, completions, lastRebuilds,
      lastSignals, lastIdle, sceneChanged, phase, levelPits, lastPitRebuilds>>

\* what only cache_pit_locs writes
pitVars == <<levelPits, lastPitRebuilds>>

steerVars == <<facing, angvel, impulse, linvel, lastCall, lastBrake, steerPhase>>

runVars == <<run>>

aiVars ==
    <<kind, actor, playerPresent, playerDist, pitDist, moving, score, ran,
      picked, aiPhase>>

actVars == <<act>>

frameVars ==
    <<appState, nextState, schedule, ranSystems, queued, intangible, frames,
      markerSeen, lastContact>>

nonCollisionVars == <<steerVars, runVars, aiVars, actVars, frameVars>>

\* what the steering systems and the physics step of the orb never write
nonOrbVars == <<collisionVars, aiVars, actVars, frameVars>>

\* what the scorers and the Thinker never write
nonAiVars == <<collisionVars, steerVars, runVars, actVars, frameVars>>

vars == <<collisionVars, steerVars, runVars, aiVars, actVars, frameVars>>

(* --------------------------- scene hierarchy --------------------------- *)
Colliders == DOMAIN parent

\* Children of an entity: the colliders whose Parent it is
ChildrenOf(e) == {s \in Colliders : parent[s] = e}

ChildrenOfAll(es) == {s \in Colliders : parent[s] \in es}

WallTiles == {t \in DOMAIN tile : tile[t] = "Wall"}

PitTiles == {t \in DOMAIN tile : tile[t] = "Pit"}

\* f without the keys in ks
Without(f, ks) == [k \in (DOMAIN f) \ ks |-> f[k]]

\* f with key k set to v
With(f, k, v) == [x \in (DOMAIN f) \cup {k} |-> IF x = k THEN v ELSE f[x]]

(* ----------------------------- level loading --------------------------- *)
\* entities of one spawned level, from the first id on: a wall tile with its
\* collider, a pit tile with its entry sensor and one pit wall, and an orb
\* with its two colliders (body and pit sensor)
LevelSize == 5 + 3

\* the first Entity id of the k-th level spawned (k = 0, 1, ...)
LevelBase(k) == k * LevelSize

\* the Entity id of the falling collider spawned for completion id n: the
\* ids below zero are the entities spawned while playing
FallingCollider(n) == 0 - (n + 1)

LevelTiles(base) == (base :> "Wall") @@ ((base + 2) :> "Pit")

LevelActors(base) == {base + 5}

LevelParents(base) ==
    ((base + 1) :> base) @@ ((base + 3) :> (base + 2)) @@ ((base + 4) :> (base + 2))
    @@ ((base + 6) :> (base + 5)) @@ ((base + 7) :> (base + 5))

\* the CacheEvents detect_loaded sends for n LevelEvent::Spawned events
SpawnedSignals(n) ==
    [i \in 1 .. 2 * n |->
        IF i % 2 = 1 THEN "InvalidateColliderHierarchy" ELSE "InvalidatePitCoords"]

(* --------------------------- interaction events ------------------------ *)
HitActor == [type |-> "ActorHitActor"]

HitWall == [type |-> "ActorHitWall"]

EnterPit(a, p) == [type |-> "ActorEnterPit", actor |-> a, pit |-> p]

IsEnterPit(ev) == ev.type = "ActorEnterPit"

(* ---------------------------- detect_collisions ------------------------ *)
\* get_parents: both lookups succeed, or one warning is logged
HasParents(e1, e2) == e1 \in Colliders /\ e2 \in Colliders

\* an iteration that marks the shape of a pit contact before it looks the
\* parents up
MarkBeforeLookup(fallen, e1, e2) ==
    IF e1 \in pit_colliders /\ e2 \notin fallen
    THEN IF HasParents(e1, e2)
         THEN [fallen |-> fallen \cup {e2},
               ev |-> <<EnterPit(parent[e2], parent[e1])>>, warn |-> 0]
         ELSE [fallen |-> fallen \cup {e2}, ev |-> <<>>, warn |-> 1]
    ELSE IF e2 \in pit_colliders /\ e1 \notin fallen
    THEN IF HasParents(e1, e2)
         THEN [fallen |-> fallen \cup {e1},
               ev |-> <<EnterPit(parent[e1], parent[e2])>>, warn |-> 0]
         ELSE [fallen |-> fallen \cup {e1}, ev |-> <<>>, warn |-> 1]
    ELSE IF \/ (e1 \in wall_colliders /\ e2 \in orb_colliders)
            \/ (e2 \in wall_colliders /\ e1 \in orb_colliders)
    THEN [fallen |-> fallen, ev |-> <<HitWall>>, warn |-> 0]
    ELSE IF e1 \in orb_colliders /\ e2 \in orb_colliders
    THEN [fallen |-> fallen, ev |-> <<HitActor>>, warn |-> 0]
    ELSE [fallen |-> fallen, ev |-> <<>>, warn |-> 1]

\* one iteration of the loop over the contact events: the dedup set after
\* it, the events it sends and the number of warnings it logs
ClassifyStep(fallen, e1, e2) ==
    IF e1 \in pit_colliders /\ e2 \notin fallen
    THEN IF HasParents(e1, e2)
         THEN [fallen |-> fallen \cup {e2},
               ev |-> <<EnterPit(parent[e2], parent[e1])>>, warn |-> 0]
         ELSE [fallen |-> fallen, ev |-> <<>>, warn |-> 1]
    ELSE IF e2 \in pit_colliders /\ e1 \notin fallen
    THEN IF HasParents(e1, e2)
         THEN [fallen |-> fallen \cup {e1},
               ev |-> <<EnterPit(parent[e1], parent[e2])>>, warn |-> 0]
         ELSE [fallen |-> fallen, ev |-> <<>>, warn |-> 1]
    ELSE IF \/ (e1 \in wall_colliders /\ e2 \in orb_colliders)
            \/ (e2 \in wall_colliders /\ e1 \in orb_colliders)
    THEN [fallen |-> fallen, ev |-> <<HitWall>>, warn |-> 0]
    ELSE IF e1 \in orb_colliders /\ e2 \in orb_colliders
    THEN [fallen |-> fallen, ev |-> <<HitActor>>, warn |-> 0]
    ELSE [fallen |-> fallen, ev |-> <<>>, warn |-> 1]

\* the collider entities a contact event can name
ContactShapes == Colliders \cup wall_colliders \cup pit_colliders \cup orb_colliders

\* a writer that puts the new events in front of the ones already sent
SendInFront(sent, evs) == evs \o sent

\* EventWriter::send: the events are appended to the ones already sent
Send(sent, evs) == sent \o evs

\* the actors (entities with the Actor component) one of whose colliders the
\* contact pairs with a collider of the pit role, both parents resolvable
PitContactActors(e1, e2) ==
    IF HasParents(e1, e2)
    THEN {a \in actors : \/ (e1 \in pit_colliders /\ parent[e2] = a)
                          \/ (e2 \in pit_colliders /\ parent[e1] = a)}
    ELSE {}

\* cnt with one more for the actor of every pit-entry event in evs
RECURSIVE Counted(_, _)
Counted(cnt, evs) ==
    IF evs = <<>> THEN cnt
    ELSE Counted(IF IsEnterPit(Head(evs))
                 THEN With(cnt, Head(evs).actor,
                           IF Head(evs).actor \in DOMAIN cnt
                           THEN cnt[Head(evs).actor] + 1 ELSE 1)
                 ELSE cnt,
                 Tail(evs))

NumEnterPit(evs) == Cardinality({i \in 1 .. Len(evs) : IsEnterPit(evs[i])})

(* --------------------------- trigger_interaction ----------------------- *)
\* the part of the world trigger_interaction and its commands write
World ==
    [actors |-> actors, parent |-> parent, animator |-> animator,
     disabled |-> disabled, completions |-> completions]

\* one iteration of the loop over the interaction events, with the commands
\* it queues applied: the actor loses its Actor component and its
\* descendants and gets an Animator and a new falling collider; the pit is
\* disabled and registered under a fresh completion id
TriggerOne(w, ev) ==
    IF IsEnterPit(ev)
    THEN LET id == w.completions.next
             gone == {s \in DOMAIN w.parent : w.parent[s] = ev.actor}
         IN  [actors |-> w.actors \ {ev.actor},
              parent |-> With(Without(w.parent, gone), FallingCollider(id), ev.actor),
              animator |-> With(w.animator, ev.actor, id),
              disabled |-> w.disabled \cup {ev.pit},
              completions |-> [next |-> id + 1,
                               killers |-> With(w.completions.killers, id, ev.pit)]]
    ELSE w

RECURSIVE TriggerAll(_, _)
TriggerAll(w, evs) ==
    IF evs = <<>> THEN w ELSE TriggerAll(TriggerOne(w, Head(evs)), Tail(evs))

(* ------------------------ cache_collider_hierarchy --------------------- *)
Cache == [wall |-> wall_colliders, pit |-> pit_colliders, orb |-> orb_colliders]

\* a rebuild that does not match on the Tile: the children of every tile go
\* into the wall set and into the pit set
RebuiltEveryTile(c) ==
    [wall |-> c.wall \cup ChildrenOfAll(DOMAIN tile),
     pit |-> c.pit \cup ChildrenOfAll(DOMAIN tile),
     orb |-> c.orb \cup ChildrenOfAll(actors)]

\* the body of the if: every child of every tile and orb is inserted into
\* the set of its role
RebuiltCache(c) ==
    [wall |-> c.wall \cup ChildrenOfAll(WallTiles),
     pit |-> c.pit \cup ChildrenOfAll(PitTiles),
     orb |-> c.orb \cup ChildrenOfAll(actors)]

\* the unread events that match CacheEvent::InvalidateColliderHierarchy
NumInvalidations(evs) ==
    Cardinality({i \in 1 .. Len(evs) : evs[i] = "InvalidateColliderHierarchy"})

\* a fold that runs the body once for every matching event
RebuildPerEvent(evs) == NumInvalidations(evs)

\* the fold over the unread events: how many times the body runs
RebuildCount(evs) == IF NumInvalidations(evs) > 0 THEN 1 ELSE 0

RECURSIVE RebuildTimes(_, _)
RebuildTimes(c, n) == IF n = 0 THEN c ELSE RebuildTimes(RebuiltCache(c), n - 1)

(* ------------------------------ cache_pit_locs ------------------------- *)
\* Transform.translation.xy() of a tile: the tiles of one level are at the
\* grid cells of that level, here the cell numbered like the level
Translation(t) == t \div LevelSize

\* cache.0.push for every tile of the set, in the order of the query
RECURSIVE Pushed(_, _)
Pushed(locs, ts) ==
    IF ts = {} THEN locs
    ELSE LET t == CHOOSE x \in ts : \A y \in ts : x <= y
         IN  Pushed(Append(locs, Translation(t)), ts \ {t})

\* a rebuild that pushes onto the locations already held
PushedOnto(locs) == Pushed(locs, PitTiles)

\* the body of the if: the Vec is cleared and the location of every Pit
\* tile is pushed
RebuiltPits(locs) == Pushed(<<>>, PitTiles)

\* the unread events that match CacheEvent::InvalidatePitCoords
NumPitInvalidations(evs) ==
    Cardinality({i \in 1 .. Len(evs) : evs[i] = "InvalidatePitCoords"})

\* a fold that is true whatever was read
PitRebuildAlways(evs) == 1

\* the fold over the unread events: how many times the body runs
PitRebuildCount(evs) == IF NumPitInvalidations(evs) > 0 THEN 1 ELSE 0

(* -------------------------------- actions ------------------------------ *)
PassVarsReset ==
    /\ fallen_orbs' = {}
    /\ output' = <<>>
    /\ outSrc' = <<>>
    /\ nRead' = 0
    /\ warnings' = 0
    /\ pitContacts' = {}

\* Vec2::ZERO
ZeroImpulse == [dir |-> 0, mag |-> 0]

NoCall == [called |-> FALSE]

\* init_orb: the orb is spawned facing up, at rest, with ExternalImpulse::default()
InitOrb ==
    /\ facing = 0
    /\ angvel = 0
    /\ impulse = ZeroImpulse
    /\ linvel = ZeroImpulse
    /\ lastCall = NoCall
    /\ lastBrake = NoCall
    /\ steerPhase = "steer"

NoRun == [running |-> FALSE]

\* the empty scene before the first level is spawned
InitScene ==
    /\ tile = << >>
    /\ actors = {}
    /\ parent = << >>
    /\ animator = << >>
    /\ disabled = {}
    /\ loads = 0
    /\ wall_colliders = {}
    /\ pit_colliders = {}
    /\ orb_colliders = {}
    /\ cacheEvents = <<>>
    /\ fallen_orbs = {}
    /\ output = <<>>
    /\ outSrc = <<>>
    /\ nRead = 0
    /\ warnings = 0
    /\ pitContacts = {}
    /\ epochEntered = << >>
    /\ completions = [next |-> 0, killers |-> << >>]
    /\ lastRebuilds = 0
    /\ lastSignals = 0
    /\ lastIdle = FALSE
    /\ sceneChanged = FALSE
    /\ phase = "update"
    /\ levelPits = <<>>
    /\ lastPitRebuilds = 0

\* Intangible { frames: 5 }
IntangibleFrames == 5

\* the first frame starts in AppState::default() with no falling collider
InitFrame ==
    /\ appState = "Loading"
    /\ nextState = "None"
    /\ schedule = "PreUpdate"
    /\ ranSystems = {}
    /\ queued = {}
    /\ intangible = "none"
    /\ frames = 0
    /\ markerSeen = 0
    /\ lastContact = "none"

\* distance units in a tile of 256 pixels
TileUnits == 2

\* the Score value 1.0
ScoreOne == 30

\* a distance that is NaN, and one that is f32::INFINITY or f32::MAX
NaN == 0 - 1

Infinite == MaxDistance + 1

\* the Score of every scorer starts at 0.0
NoScores == [flee |-> 0, charge |-> 0, inertia |-> 0, nearPit |-> 0]

NoPick == [fresh |-> FALSE]

\* RelativeMove.thrust: None, or Some of a heading, of the zero vector
\* (normalize() of Vec2::MAX) or of NaN (normalize() of the zero vector)
NaNThrust == 0 - 1

ZeroThrust == 0 - 2

NoThrust == 0 - 3

\* a Thinker that has not picked yet has no current action
NoAction ==
    [type |-> "None", state |-> "Init", thrust |-> NoThrust, since |-> 0,
     prev |-> "None"]

\* an AI orb of the given kind at the start of a level, the player at
\* distance zero and no pit in the index
InitThinker(k) ==
    /\ kind = k
    /\ actor = "orb"
    /\ playerPresent = TRUE
    /\ playerDist = 0
    /\ pitDist = Infinite
    /\ moving = FALSE
    /\ score = NoScores
    /\ ran = {}
    /\ picked = NoPick
    /\ aiPhase = "world"
    /\ act = NoAction

Init ==
    /\ InitScene
    /\ InitFrame
    /\ InitOrb
    /\ run = NoRun
    /\ InitThinker("intransigence")

\* a Loading frame: the loader respawns the level (init_cells and init_orb
\* give the new tiles and orbs their colliders) and detect_loaded sends the
\* two CacheEvents for each LevelEvent::Spawned
LevelSpawned(respawn, n) ==
    /\ phase = "update"
    /\ IF respawn
       THEN /\ loads < MaxLoads
            /\ tile' = LevelTiles(LevelBase(loads))
            /\ actors' = LevelActors(LevelBase(loads))
            /\ parent' = LevelParents(LevelBase(loads))
            /\ animator' = << >>
            /\ disabled' = {}
            /\ loads' = loads + 1
            /\ sceneChanged' = TRUE
       ELSE /\ loads > 0
            /\ UNCHANGED <<tile, actors, parent, animator, disabled, loads,
                           sceneChanged>>
    /\ cacheEvents' = cacheEvents \o SpawnedSignals(n)
    /\ phase' = "pits"
    /\ UNCHANGED nonCollisionVars
    /\ UNCHANGED pitVars
    /\ UNCHANGED <<wall_colliders, pit_colliders, orb_colliders, fallen_orbs, output,
                   outSrc, nRead, warnings, pitContacts, epochEntered, completions,
                   lastRebuilds, lastSignals, lastIdle>>

\* a Playing frame starts: detect_collisions creates its empty dedup set
BeginPass ==
    /\ phase = "update"
    /\ loads > 0
    /\ PassVarsReset
    /\ phase' = "detect"
    /\ UNCHANGED nonCollisionVars
    /\ UNCHANGED pitVars
    /\ UNCHANGED <<tile, actors, parent, animator, disabled, loads,
                   wall_colliders, pit_colliders, orb_colliders, cacheEvents,
                   epochEntered, completions, lastRebuilds, lastSignals, lastIdle,
                   sceneChanged>>

\* detect_collisions reads the next contact event, a CollisionEvent::Started
\* (the loop skips every other kind of CollisionEvent)
ContactStep(e1, e2, maxContacts, maxFalls) ==
    /\ phase = "detect"
    /\ nRead < maxContacts
    /\ e1 # e2
    /\ LET r == ClassifyStep(fallen_orbs, e1, e2)
       IN  /\ completions.next + NumEnterPit(output \o r.ev) <= maxFalls
           /\ fallen_orbs' = r.fallen
           /\ output' = Send(output, r.ev)
           /\ outSrc' = Send(outSrc, [i \in 1 .. Len(r.ev) |-> nRead + 1])
           /\ warnings' = warnings + r.warn
           /\ epochEntered' = Counted(epochEntered, r.ev)
    /\ pitContacts' = pitContacts \cup PitContactActors(e1, e2)
    /\ nRead' = nRead + 1
    /\ UNCHANGED nonCollisionVars
    /\ UNCHANGED pitVars
    /\ UNCHANGED <<tile, actors, parent, animator, disabled, loads,
                   wall_colliders, pit_colliders, orb_colliders, cacheEvents,
                   completions, lastRebuilds, lastSignals, lastIdle, sceneChanged,
                   phase>>

\* detect_collisions has read every contact event of the frame
EndPass ==
    /\ phase = "detect"
    /\ phase' = "dispatch"
    /\ UNCHANGED nonCollisionVars
    /\ UNCHANGED pitVars
    /\ UNCHANGED <<tile, actors, parent, animator, disabled, loads,
                   wall_colliders, pit_colliders, orb_colliders, cacheEvents,
                   fallen_orbs, output, outSrc, nRead, warnings, pitContacts,
                   epochEntered, completions, lastRebuilds, lastSignals, lastIdle,
                   sceneChanged>>

\* trigger_interaction reads the events of the pass
TriggerInteraction ==
    /\ phase = "dispatch"
    /\ LET w == TriggerAll(World, output)
       IN  /\ actors' = w.actors
           /\ parent' = w.parent
           /\ animator' = w.animator
           /\ disabled' = w.disabled
           /\ completions' = w.completions
    /\ sceneChanged' = (sceneChanged \/ NumEnterPit(output) > 0)
    /\ PassVarsReset
    /\ phase' = "die"
    /\ UNCHANGED nonCollisionVars
    /\ UNCHANGED pitVars
    /\ UNCHANGED <<tile, loads, wall_colliders, pit_colliders, orb_colliders,
                   cacheEvents, epochEntered, lastRebuilds, lastSignals, lastIdle>>

\* die_after_fall reads the TweenCompleted events of the frame: done is the
\* set of entities whose fall animation completed
DieAfterFall(done) ==
    /\ phase = "die"
    /\ LET ids == {animator[e] : e \in done}
           found == ids \cap DOMAIN completions.killers
           reenabled == {completions.killers[i] : i \in found}
                            \cap (DOMAIN tile) \cap disabled
       IN  /\ tile' = Without(tile, done)
           /\ actors' = actors \ done
           /\ animator' = Without(animator, done)
           /\ parent' = Without(parent, ChildrenOfAll(done))
           /\ disabled' = (disabled \ reenabled) \ done
           /\ completions' = [completions EXCEPT !.killers = Without(@, found)]
    /\ sceneChanged' = (sceneChanged \/ done # {})
    /\ phase' = "pits"
    /\ UNCHANGED nonCollisionVars
    /\ UNCHANGED pitVars
    /\ UNCHANGED <<loads, wall_colliders, pit_colliders, orb_colliders,
                   cacheEvents, fallen_orbs, output, outSrc, nRead, warnings,
                   pitContacts, epochEntered, lastRebuilds, lastSignals, lastIdle>>

\* cache_pit_locs (PostUpdate) reads the unread CacheEvents.  Its reader
\* and the reader of cache_collider_hierarchy have each their own cursor and
\* both systems run in every frame, so both read the events of this frame;
\* the two systems write different resources, so their order in PostUpdate
\* makes no difference and this one is taken first
CachePitLocs ==
    /\ phase = "pits"
    /\ LET n == PitRebuildCount(cacheEvents)
       IN  /\ levelPits' = IF n > 0 THEN RebuiltPits(levelPits) ELSE levelPits
           /\ lastPitRebuilds' = n
    /\ phase' = "post"
    /\ UNCHANGED nonCollisionVars
    /\ UNCHANGED <<tile, actors, parent, animator, disabled, loads,
                   wall_colliders, pit_colliders, orb_colliders, cacheEvents,
                   fallen_orbs, output, outSrc, nRead, warnings, pitContacts,
                   epochEntered, completions, lastRebuilds, lastSignals, lastIdle,
                   sceneChanged>>

\* cache_collider_hierarchy (PostUpdate) reads the unread CacheEvents
CacheColliderHierarchy ==
    /\ phase = "post"
    /\ LET n == RebuildCount(cacheEvents)
           c == RebuildTimes(Cache, n)
       IN  /\ wall_colliders' = c.wall
           /\ pit_colliders' = c.pit
           /\ orb_colliders' = c.orb
           /\ lastRebuilds' = n
           /\ lastSignals' = NumInvalidations(cacheEvents)
           /\ lastIdle' = ~sceneChanged
           /\ sceneChanged' = (sceneChanged /\ n = 0)
           /\ epochEntered' = IF n = 0 THEN epochEntered ELSE << >>
    /\ cacheEvents' = <<>>
    /\ phase' = "update"
    /\ UNCHANGED nonCollisionVars
    /\ UNCHANGED pitVars
    /\ UNCHANGED <<tile, actors, parent, animator, disabled, loads,
                   fallen_orbs, output, outSrc, nRead, warnings, pitContacts,
                   completions>>

\* one level is spawned and played
Next ==
    \/ \E n \in 1 .. MaxSignals : loads = 0 /\ LevelSpawned(TRUE, n)
    \/ \E n \in 1 .. MaxSignals : LevelSpawned(FALSE, n)
    \/ BeginPass
    \/ \E e1 \in ContactShapes, e2 \in ContactShapes :
           ContactStep(e1, e2, MaxContacts, MaxFalls)
    \/ EndPass
    \/ TriggerInteraction
    \/ \E done \in SUBSET DOMAIN animator : DieAfterFall(done)
    \/ CachePitLocs
    \/ CacheColliderHierarchy

Spec == Init /\ [][Next]_vars

\* the level is respawned (reloaded) while playing
NextReload ==
    \/ \E respawn \in BOOLEAN, n \in 1 .. MaxSignals : LevelSpawned(respawn, n)
    \/ BeginPass
    \/ \E e1 \in ContactShapes, e2 \in ContactShapes :
           ContactStep(e1, e2, ReloadContacts, ReloadFalls)
    \/ EndPass
    \/ TriggerInteraction
    \/ \E done \in SUBSET DOMAIN animator : DieAfterFall(done)
    \/ CachePitLocs
    \/ CacheColliderHierarchy

SpecReload == Init /\ [][NextReload]_vars

(* ======================= collision classifier claims =================== *)
InAnyRole(s) == s \in wall_colliders \cup pit_colliders \cup orb_colliders

PitAndActor(e1, e2) ==
    \/ (e1 \in pit_colliders /\ e2 \in orb_colliders)
    \/ (e2 \in pit_colliders /\ e1 \in orb_colliders)

WallAndActor(e1, e2) ==
    \/ (e1 \in wall_colliders /\ e2 \in orb_colliders)
    \/ (e2 \in wall_colliders /\ e1 \in orb_colliders)

ActorAndActor(e1, e2) == e1 \in orb_colliders /\ e2 \in orb_colliders

CountEnterPit(evs, a) ==
    Cardinality({i \in 1 .. Len(evs) : IsEnterPit(evs[i]) /\ evs[i].actor = a})

\* the entities spawned as orbs so far
EverActors == UNION {LevelActors(LevelBase(k)) : k \in 0 .. loads - 1}

\* C1: in one classification pass, every actor for which at least one contact
\* pairing one of its shapes with a pit shape (parents resolvable) was read
\* has exactly one pit-entry event among the events sent by the pass.
C1_OnePitEntryPerPass ==
    \A a \in pitContacts : CountEnterPit(output, a) = 1

\* C2: between two consecutive cache rebuilds at most one pit-entry event is
\* sent for any given actor, over all the passes that run in between.
C2_OnePitEntryPerEpoch ==
    \A a \in EverActors \cap DOMAIN epochEntered : epochEntered[a] <= 1

\* C3: whatever contact the pass reads next, a pit-entry event is sent only
\* for a pit shape with an actor shape, a wall shape with an actor shape
\* gives a wall-hit event, two actor shapes give an actor-hit event, and
\* every other pairing sends no event.
C3_ClassifiedByRole ==
    phase = "detect" =>
        \A e1 \in ContactShapes : \A e2 \in ContactShapes \ {e1} :
            LET ev == ClassifyStep(fallen_orbs, e1, e2).ev
            IN  /\ (ev # <<>> /\ IsEnterPit(ev[1])) => PitAndActor(e1, e2)
                /\ (WallAndActor(e1, e2) /\ ~PitAndActor(e1, e2)) => ev = <<HitWall>>
                /\ (ActorAndActor(e1, e2) /\ ~PitAndActor(e1, e2)) => ev = <<HitActor>>
                /\ ~(PitAndActor(e1, e2) \/ WallAndActor(e1, e2) \/ ActorAndActor(e1, e2))
                       => ev = <<>>

\* C4: whatever contact the pass reads next, if either of its two shapes has
\* no resolvable parent then no interaction event of any kind is sent for it.
C4_NoEventWithoutParents ==
    phase = "detect" =>
        \A e1 \in ContactShapes : \A e2 \in ContactShapes \ {e1} :
            ~HasParents(e1, e2) => ClassifyStep(fallen_orbs, e1, e2).ev = <<>>

\* C5: whatever contact the pass reads next, if it names a shape that is in
\* none of the three role sets then it sends no event, logs exactly one
\* warning and leaves the dedup set as it was (so the events after it are
\* classified as if it had not been delivered), whatever the other shape is.
C5_UnclassifiedIsDropped ==
    phase = "detect" =>
        \A e1 \in ContactShapes : \A e2 \in ContactShapes \ {e1} :
            (~InAnyRole(e1) \/ ~InAnyRole(e2)) =>
                LET r == ClassifyStep(fallen_orbs, e1, e2)
                IN  r.ev = <<>> /\ r.warn = 1 /\ r.fallen = fallen_orbs

\* C6: in one pass every contact read sends at most one interaction event,
\* and the events sent are in the order of the contacts that caused them:
\* the contact indices of the events sent are strictly increasing.
C6_OrderPreserved ==
    /\ Len(outSrc) = Len(output)
    /\ Len(output) <= nRead
    /\ \A i \in 1 .. Len(outSrc) : outSrc[i] \in 1 .. nRead
    /\ \A i \in 1 .. Len(outSrc), j \in 1 .. Len(outSrc) : i < j => outSrc[i] < outSrc[j]

\* a pass that read two contacts and sent an event of a different kind for each
C6_Witness ==
    /\ phase = "dispatch"
    /\ outSrc = <<1, 2>>
    /\ output[1].type # output[2].type

\* C7: right after a processed invalidation each role set is exactly the set
\* of child shapes of the tiles or actors of that role that exist then.
C7_CacheIsExact ==
    (phase = "update" /\ lastRebuilds > 0) =>
        /\ wall_colliders = ChildrenOfAll(WallTiles)
        /\ pit_colliders = ChildrenOfAll(PitTiles)
        /\ orb_colliders = ChildrenOfAll(actors)

\* C8: a run of the cache system rebuilds at most once however many
\* invalidation signals it reads, and when the scene has not changed since
\* the rebuild before it leaves the three role sets as they were.
C8_RebuildIdempotent ==
    [][phase = "post" =>
           /\ lastRebuilds' <= 1
           /\ (~sceneChanged => Cache' = Cache)]_vars

\* a rebuild for several signals read in one frame, with no scene change
\* since the rebuild before it
C8_Witness ==
    /\ phase = "update"
    /\ lastRebuilds = 1
    /\ lastSignals >= 2
    /\ lastIdle
    /\ orb_colliders # {}

(* ------------------------------ steering ------------------------------- *)
\* pixels per second per second
ACCEL_V == 750

Headings == 0 .. FullTurn - 1

Abs(x) == IF x < 0 THEN 0 - x ELSE x

\* f32::min
Min(a, b) == IF a <= b THEN a ELSE b

\* Transform::rotate_z: a positive angle is anticlockwise
RotateZ(h, a) == (h + a) % FullTurn

\* forward_dot_goal.clamp(-1.0, 1.0).acos(): the angle between the facing and
\* the goal, between 0 and half a turn
AngleBetween(h, g) ==
    LET d == (g - h) % FullTurn
    IN  IF 2 * d <= FullTurn THEN d ELSE FullTurn - d

\* the values -copysign(1.0, right_dot_goal) can take: +1 (anticlockwise)
\* when the goal is to the left of the facing, -1 (clockwise) when it is to
\* the right; when the goal is straight ahead or straight behind
\* right_dot_goal is a zero of either sign
Signs(h, g) ==
    LET d == (g - h) % FullTurn
    IN  IF d = 0 \/ 2 * d = FullTurn THEN {0 - 1, 1}
        ELSE IF 2 * d < FullTurn THEN {1}
        ELSE {0 - 1}

\* 4.0 * PI * time.delta_seconds(), in heading steps
TurnAngle(dt) == dt

\* thrust * magnitude for a unit vector thrust
Scaled(thrust, m) == IF m = 0 THEN ZeroImpulse ELSE [dir |-> thrust, mag |-> m]

Orb == [facing |-> facing, angvel |-> angvel, impulse |-> impulse]

\* braking
DECEL_V == -1500

\* a vector with a NaN component
NaNVector == [nan |-> TRUE]

\* the linear velocities of the orb: Vec2::ZERO, or a positive speed along a heading
Velocities ==
    {ZeroImpulse} \cup
    {[dir |-> d, mag |-> k * ACCEL_V] : d \in Headings, k \in 1 .. MaxSpeed}

\* the mass an orb gets when the level gives none
DefaultMass == 1

\* a clamp that lets the vector through as it is
ClampNothing(mag, max) == mag

\* Vec2::clamp_length(0.0, max) of the vector mag * (unit vector): the
\* length is cut down to max and the direction kept
ClampLength(mag, max) ==
    IF Abs(mag) > max THEN (IF mag < 0 THEN 0 - max ELSE max) ELSE mag

\* decelerate_orb: the new angular velocity and pending impulse.  The
\* impulse is mag times the unit vector of the velocity, so a negative mag
\* points against the velocity; normalize() of Vec2::ZERO is NaN
DecelerateOrb(v, imp, dt) ==
    [angvel |-> 0,
     impulse |-> IF v.mag = 0 THEN imp
                 ELSE Scaled(v.dir, ClampLength(DECEL_V * dt, v.mag))]

\* the physics step applies an impulse along the velocity to a body of the
\* default mass: linvel += impulse / mass
Applied(v, imp) == [dir |-> v.dir, mag |-> v.mag + (imp.mag \div DefaultMass)]

\* the InputEvent::Decelerate arm of move_player: no NaN test, and the
\* angular velocity is left alone
MovePlayerDecelerate(w, v, imp, dt) ==
    [angvel |-> w,
     impulse |-> IF v.mag = 0 THEN NaNVector
                 ELSE Scaled(v.dir, ClampLength((0 - 1500) * dt, v.mag))]

\* a steering law that goes on to thrust after it has turned
AccelerateAndTurn(o, thrust, dt, sign) ==
    LET max_angle == AngleBetween(o.facing, thrust)
        rotation_angle == Min(sign * TurnAngle(dt), max_angle)
    IN  [facing |-> IF o.facing # thrust THEN RotateZ(o.facing, rotation_angle) ELSE o.facing,
         angvel |-> IF o.facing # thrust THEN 0 ELSE o.angvel,
         impulse |-> Scaled(thrust, ACCEL_V * dt),
         turned |-> o.facing # thrust,
         rotation |-> IF o.facing # thrust THEN rotation_angle ELSE 0,
         thrust_applied |-> TRUE]

\* accelerate_orb: thrust is the desired heading, sign one of Signs
AccelerateOrb(o, thrust, dt, sign) ==
    LET max_angle == AngleBetween(o.facing, thrust)
        rotation_angle == Min(sign * TurnAngle(dt), max_angle)
    IN  IF o.facing # thrust
        THEN IF max_angle > 0
             THEN [facing |-> RotateZ(o.facing, rotation_angle),
                   angvel |-> 0,
                   impulse |-> o.impulse,
                   turned |-> TRUE,
                   rotation |-> rotation_angle,
                   thrust_applied |-> FALSE]
             ELSE [facing |-> o.facing,
                   angvel |-> 0,
                   impulse |-> Scaled(thrust, ACCEL_V * dt),
                   turned |-> FALSE,
                   rotation |-> 0,
                   thrust_applied |-> TRUE]
        ELSE [facing |-> o.facing,
              angvel |-> o.angvel,
              impulse |-> Scaled(thrust, ACCEL_V * dt),
              turned |-> FALSE,
              rotation |-> 0,
              thrust_applied |-> TRUE]

\* the InputEvent::Accelerate arm of move_player
MovePlayerAccelerate(o, thrust, dt, sign) ==
    LET max_angle == AngleBetween(o.facing, thrust)
        rotation_angle == Min(sign * TurnAngle(dt), max_angle)
    IN  IF o.facing # thrust
        THEN [facing |-> RotateZ(o.facing, rotation_angle),
              angvel |-> 0,
              impulse |-> o.impulse,
              turned |-> TRUE,
              rotation |-> rotation_angle,
              thrust_applied |-> FALSE]
        ELSE [facing |-> o.facing,
              angvel |-> o.angvel,
              impulse |-> Scaled(thrust, 750 * dt),
              turned |-> FALSE,
              rotation |-> 0,
              thrust_applied |-> TRUE]

\* the orb after a steering call, and the record of the call
Steered(r, thrust, dt, by) ==
    /\ facing' = r.facing
    /\ angvel' = r.angvel
    /\ impulse' = r.impulse
    /\ lastCall' = [called |-> TRUE, by |-> by, facing |-> facing, thrust |-> thrust,
                    dt |-> dt, max_angle |-> AngleBetween(facing, thrust),
                    turned |-> r.turned, rotation |-> r.rotation,
                    thrust_applied |-> r.thrust_applied,
                    angvel |-> angvel, impulse |-> impulse]
    /\ lastBrake' = NoCall
    /\ linvel' = linvel
    /\ steerPhase' = "physics"
    /\ UNCHANGED nonOrbVars

\* relative_move_action steers the orb of an AI agent
RelativeMove(thrust, dt, sign) ==
    /\ steerPhase = "steer"
    /\ sign \in Signs(facing, thrust)
    /\ Steered(AccelerateOrb(Orb, thrust, dt, sign), thrust, dt, "relative_move_action")

\* move_player steers the orb of the player on InputEvent::Accelerate
MovePlayer(thrust, dt, sign) ==
    /\ steerPhase = "steer"
    /\ sign \in Signs(facing, thrust)
    /\ Steered(MovePlayerAccelerate(Orb, thrust, dt, sign), thrust, dt, "move_player")

\* a frame in which nothing steers the orb
Coast ==
    /\ steerPhase = "steer"
    /\ lastCall' = NoCall
    /\ lastBrake' = NoCall
    /\ steerPhase' = "physics"
    /\ UNCHANGED <<facing, angvel, impulse, linvel, nonOrbVars>>

\* the orb after a deceleration call, and the record of the call
Braked(r, dt, by) ==
    /\ angvel' = r.angvel
    /\ impulse' = r.impulse
    /\ lastBrake' = [called |-> TRUE, by |-> by, dt |-> dt, facing |-> facing,
                     angvel |-> angvel, impulse |-> impulse, linvel |-> linvel]
    /\ lastCall' = NoCall
    /\ steerPhase' = "physics"
    /\ UNCHANGED <<facing, linvel, nonOrbVars>>

\* halt_action brakes the orb of an AI agent
HaltBrake(dt) ==
    /\ steerPhase = "steer"
    /\ Braked(DecelerateOrb(linvel, impulse, dt), dt, "halt_action")

\* move_player brakes the orb of the player on InputEvent::Decelerate
PlayerBrake(dt) ==
    /\ steerPhase = "steer"
    /\ Braked(MovePlayerDecelerate(angvel, linvel, impulse, dt), dt, "move_player")

\* the physics step: the pending impulse is consumed, the orb turns by its
\* angular velocity, and a collision may leave it tumbling at rate spin
PhysicsStep(spin) ==
    /\ steerPhase = "physics"
    /\ facing' = RotateZ(facing, angvel)
    /\ angvel' = spin
    /\ impulse' = ZeroImpulse
    /\ lastCall' = NoCall
    /\ lastBrake' = NoCall
    /\ steerPhase' = "steer"
    /\ UNCHANGED nonOrbVars

NextSteer ==
    \/ \E thrust \in Headings, dt \in 0 .. MaxDt, sign \in {0 - 1, 1} :
           RelativeMove(thrust, dt, sign) /\ UNCHANGED runVars
    \/ \E thrust \in Headings, dt \in 0 .. MaxDt, sign \in {0 - 1, 1} :
           MovePlayer(thrust, dt, sign) /\ UNCHANGED runVars
    \/ Coast /\ UNCHANGED runVars
    \/ \E dt \in 0 .. MaxDt : HaltBrake(dt) /\ UNCHANGED runVars
    \/ \E dt \in 0 .. MaxDt : PlayerBrake(dt) /\ UNCHANGED runVars
    \/ \E spin \in {0 - 1, 0, 1}, v \in Velocities :
           PhysicsStep(spin) /\ linvel' = v /\ UNCHANGED runVars

SpecSteer == Init /\ [][NextSteer]_vars

(* ----------------------- steering towards one goal --------------------- *)
\* the orb is spawned with any facing and steered every frame towards the
\* same desired heading with the same positive frame time; nothing else
\* rotates it
InitRun ==
    /\ facing \in Headings
    /\ angvel = 0
    /\ impulse = ZeroImpulse
    /\ linvel = ZeroImpulse
    /\ lastCall = NoCall
    /\ lastBrake = NoCall
    /\ steerPhase = "steer"
    /\ \E thrust \in Headings, dt \in 1 .. FullTurn :
           run = [running |-> TRUE, thrust |-> thrust, dt |-> dt, ticks |-> 0,
                  thrusts |-> 0, lost |-> FALSE]
    /\ InitScene
    /\ InitFrame
    /\ InitThinker("intransigence")

\* one more call of relative_move_action for the goal of the run
RunTick(sign) ==
    /\ run.ticks <= FullTurn
    /\ RelativeMove(run.thrust, run.dt, sign)
    /\ LET r == AccelerateOrb(Orb, run.thrust, run.dt, sign)
       IN  run' = [run EXCEPT !.ticks = @ + 1,
                              !.thrusts = @ + (IF r.thrust_applied THEN 1 ELSE 0),
                              !.lost = @ \/ (run.thrusts > 0 /\ ~r.thrust_applied)]

\* the physics step of a frame of the run: nothing makes the orb tumble
RunPhysics ==
    /\ PhysicsStep(0)
    /\ UNCHANGED <<run, linvel>>

NextRun ==
    \/ \E sign \in {0 - 1, 1} : RunTick(sign)
    \/ RunPhysics

SpecRun == InitRun /\ [][NextRun]_vars

\* C11: steering every frame towards one desired heading with one positive
\* frame time, the call has applied thrust (returned true) within FullTurn
\* calls, whatever the initial facing, and once it has applied thrust every
\* later call applies thrust too.
C11_Converges ==
    /\ run.ticks >= FullTurn => run.thrusts > 0
    /\ ~run.lost

(* ------------------------------- scorers ------------------------------- *)
Kinds == {"intransigence", "cowardice", "malice"}

\* the scorers each Thinker declares
Scorers(k) ==
    IF k = "cowardice" THEN {"NearPit", "Flee", "ExperiencingInertia"}
    ELSE IF k = "malice" THEN {"NearPit", "Charge", "ExperiencingInertia"}
    ELSE {"ExperiencingInertia"}

Distances == (0 .. MaxDistance) \cup {NaN, Infinite}

\* f32::clamp
Clamp(x, lo, hi) == IF x < lo THEN lo ELSE IF x > hi THEN hi ELSE x

\* a flee score that is not clamped
FleeUnclamped(d) ==
    IF d = NaN THEN 0 ELSE ((3 * TileUnits - d) * ScoreOne) \div (3 * TileUnits)

\* a flee score that fades over two tiles instead of three
FleeWithinTwo(d) ==
    IF d = NaN \/ d = Infinite THEN 0
    ELSE (Clamp(2 * TileUnits - d, 0, 2 * TileUnits) * ScoreOne) \div (2 * TileUnits)

\* flee_scorer: the value it sets for a distance d to the player
FleeScore(d) ==
    IF d = NaN \/ d = Infinite THEN 0
    ELSE (Clamp(3 * TileUnits - d, 0, 3 * TileUnits) * ScoreOne) \div (3 * TileUnits)

\* charge_scorer: the value it sets for a distance d to the player
ChargeScore(d) ==
    IF d = NaN THEN 0
    ELSE IF d = Infinite THEN ScoreOne
    ELSE (Clamp(d - 3 * TileUnits, 0, 3 * TileUnits) * ScoreOne) \div (3 * TileUnits)

\* moving_scorer: 0.1 when the orb moves or tumbles
InertiaScore(m) == IF m THEN ScoreOne \div 10 ELSE 0

\* near_pit_scorer: a comparison with NaN is false
NearPitScore(d) ==
    IF d # NaN /\ d # Infinite /\ d < 3 * TileUnits THEN ScoreOne ELSE 0

\* a scorer system has run; the Thinker runs after all four
ScorerRan(name) ==
    /\ aiPhase = "score"
    /\ name \notin ran
    /\ ran' = ran \cup {name}
    /\ UNCHANGED <<kind, actor, playerPresent, playerDist, pitDist, moving,
                   picked, aiPhase>>
    /\ UNCHANGED nonAiVars

FleeScorer ==
    /\ ScorerRan("Flee")
    /\ score' = IF playerPresent /\ "Flee" \in Scorers(kind)
                THEN [score EXCEPT !.flee = FleeScore(playerDist)]
                ELSE score

ChargeScorer ==
    /\ ScorerRan("Charge")
    /\ score' = IF playerPresent /\ "Charge" \in Scorers(kind)
                THEN [score EXCEPT !.charge = ChargeScore(playerDist)]
                ELSE score

MovingScorer ==
    /\ ScorerRan("ExperiencingInertia")
    /\ score' = IF "ExperiencingInertia" \in Scorers(kind) /\ actor = "orb"
                THEN [score EXCEPT !.inertia = InertiaScore(moving)]
                ELSE score

NearPitScorer ==
    /\ ScorerRan("NearPit")
    /\ score' = IF "NearPit" \in Scorers(kind) /\ actor = "orb"
                THEN [score EXCEPT !.nearPit = NearPitScore(pitDist)]
                ELSE score

(* ------------------------------- pickers ------------------------------- *)
\* FirstToScore { threshold: 0.5 }
Threshold == ScoreOne \div 2

\* Highest: the first choice with the highest score above zero
Highest(first, firstAction, second, secondAction) ==
    IF first > 0 /\ first >= second THEN firstAction
    ELSE IF second > 0 THEN secondAction
    ELSE "None"

\* a Thinker that asks its otherwise-Thinker before its own choices
OtherwiseFirst(k, sc) ==
    LET sub == IF k = "cowardice"
               THEN Highest(sc.flee, "AvoidPlayer", sc.inertia, "Halt")
               ELSE Highest(sc.charge, "ChasePlayer", sc.inertia, "Halt")
    IN  IF k = "intransigence"
        THEN [fresh |-> TRUE, action |-> Highest(sc.inertia, "Halt", 0, "None"),
              otherwise |-> FALSE]
        ELSE IF sub # "None"
        THEN [fresh |-> TRUE, action |-> sub, otherwise |-> TRUE]
        ELSE [fresh |-> TRUE,
              action |-> IF sc.nearPit >= Threshold THEN "AvoidPit" ELSE "None",
              otherwise |-> FALSE]

\* the Thinkers built by spawn_intransigence, spawn_cowardice and
\* spawn_malice: the action picked for the scores sc, and whether the
\* otherwise-Thinker was asked
Pick(k, sc) ==
    IF k = "intransigence"
    THEN [fresh |-> TRUE, action |-> Highest(sc.inertia, "Halt", 0, "None"),
          otherwise |-> FALSE]
    ELSE IF sc.nearPit >= Threshold
    THEN [fresh |-> TRUE, action |-> "AvoidPit", otherwise |-> FALSE]
    ELSE IF k = "cowardice"
    THEN [fresh |-> TRUE,
          action |-> Highest(sc.flee, "AvoidPlayer", sc.inertia, "Halt"),
          otherwise |-> TRUE]
    ELSE [fresh |-> TRUE,
          action |-> Highest(sc.charge, "ChasePlayer", sc.inertia, "Halt"),
          otherwise |-> TRUE]

\* the Thinker of the AI orb picks after the scorers of the frame
Think ==
    /\ aiPhase = "score"
    /\ ran = {"Flee", "Charge", "ExperiencingInertia", "NearPit"}
    /\ picked' = Pick(kind, score)
    /\ ran' = {}
    /\ aiPhase' = "world"
    /\ UNCHANGED <<kind, actor, playerPresent, playerDist, pitDist, moving, score>>
    /\ UNCHANGED nonAiVars

\* between two frames of the AI the world changes: the orb and the player
\* move, the player dies or respawns, the pit index is rebuilt, the orb
\* falls into a pit and loses its physics components
WorldMoves(a, p, d, pd, m) ==
    /\ aiPhase = "world"
    /\ a \in (IF actor = "orb" THEN {"orb", "falling"} ELSE {"falling"})
    /\ actor' = a
    /\ playerPresent' = p
    /\ playerDist' = d
    /\ pitDist' = pd
    /\ moving' = m
    /\ picked' = NoPick
    /\ aiPhase' = "score"
    /\ UNCHANGED <<kind, score, ran>>
    /\ UNCHANGED nonAiVars

\* the lengths nearest_pit is told apart by: inside three tiles, at three
\* tiles, and the empty index
PitDistances == {3 * TileUnits - 1, 3 * TileUnits, Infinite}

InitScore ==
    /\ InitScene
    /\ InitFrame
    /\ InitOrb
    /\ run = NoRun
    /\ \E k \in Kinds : InitThinker(k)

NextScore ==
    \/ \E a \in {"orb", "falling"}, p \in BOOLEAN, d \in Distances,
          pd \in PitDistances, m \in BOOLEAN : WorldMoves(a, p, d, pd, m)
    \/ FleeScorer
    \/ ChargeScorer
    \/ MovingScorer
    \/ NearPitScorer
    \/ Think

SpecScore == InitScore /\ [][NextScore]_vars

(* ========================== steering law claims ========================= *)
\* C9: every steering call either turns or thrusts, never both.  When the
\* facing is not the desired heading the call rotates the orb (by a non-zero
\* angle when the frame took time) and writes no thrust, so the impulse
\* after it is zero; when the facing is the desired heading the call writes
\* the thrust impulse and leaves the facing as it was.
C9_TurnOrThrust ==
    (steerPhase = "physics" /\ lastCall.called) =>
        IF lastCall.facing # lastCall.thrust
        THEN /\ lastCall.turned
             /\ ~lastCall.thrust_applied
             /\ impulse = ZeroImpulse
             /\ (lastCall.dt > 0 => facing # lastCall.facing)
        ELSE /\ ~lastCall.turned
             /\ lastCall.thrust_applied
             /\ facing = lastCall.facing
             /\ impulse = Scaled(lastCall.thrust, ACCEL_V * lastCall.dt)

\* a call that turned the orb and wrote no thrust
C9_Witness ==
    /\ steerPhase = "physics"
    /\ lastCall.called
    /\ lastCall.turned
    /\ facing # lastCall.facing
    /\ impulse = ZeroImpulse

\* C10: on every turning call the magnitude of the rotation applied is at
\* most the angle that remained between the facing and the desired heading,
\* whichever way the orb turns.
C10_NoOvershoot ==
    (steerPhase = "physics" /\ lastCall.called /\ lastCall.turned) =>
        Abs(lastCall.rotation) <= lastCall.max_angle

\* a clockwise turn by the whole turn rate of the frame onto or past a goal
\* that was nearer than that
C10_Overshoot ==
    /\ steerPhase = "physics"
    /\ lastCall.called
    /\ lastCall.turned
    /\ lastCall.rotation < 0
    /\ Abs(lastCall.rotation) > lastCall.max_angle

\* the call of this frame was accelerate_orb with time step dt
AcceleratedWith(dt) ==
    /\ steerPhase = "physics"
    /\ lastCall.called
    /\ lastCall.by = "relative_move_action"
    /\ lastCall.dt = dt

\* the call of this frame was decelerate_orb
Decelerated ==
    /\ steerPhase = "physics"
    /\ lastBrake.called
    /\ lastBrake.by = "halt_action"

\* C12: a call of accelerate_orb or decelerate_orb in a frame whose time
\* step is zero leaves the rotation, the linear velocity, the angular
\* velocity and the pending impulse of the orb as they were.
\* (Time::delta_seconds is never negative.)
C12_ZeroStepIsNoOp ==
    /\ AcceleratedWith(0) =>
           /\ facing = lastCall.facing
           /\ angvel = lastCall.angvel
           /\ impulse = lastCall.impulse
    /\ (Decelerated /\ lastBrake.dt = 0) =>
           /\ facing = lastBrake.facing
           /\ angvel = lastBrake.angvel
           /\ impulse = lastBrake.impulse
           /\ linvel = lastBrake.linvel

MinThrustPeriod == 2

ActionStates ==
    {"Init", "Requested", "Executing", "Cancelled", "Success", "Failure"}

\* the thrust a relative move can compute: a heading, the zero vector
\* (normalize() of Vec2::MAX) or NaN (normalize() of the zero vector)
Opposite(dir) == (dir + FullTurn \div 2) % FullTurn

\* the moves each Thinker can request
Moves(k) ==
    IF k = "cowardice" THEN {"AvoidPit", "AvoidPlayer", "Halt"}
    ELSE IF k = "malice" THEN {"AvoidPit", "ChasePlayer", "Halt"}
    ELSE {"Halt"}

\* accelerate_orb for any thrust: a NaN thrust passes the alignment test and
\* is written to the impulse; a zero thrust is a quarter turn away and to
\* the right
AccelerateOrbWith(o, thrust, dt, sign) ==
    IF thrust = NaNThrust
    THEN [facing |-> o.facing, angvel |-> o.angvel, impulse |-> NaNVector,
          thrust_applied |-> TRUE]
    ELSE IF thrust = ZeroThrust
    THEN [facing |-> RotateZ(o.facing, Min((0 - 1) * TurnAngle(dt), FullTurn \div 4)),
          angvel |-> 0, impulse |-> o.impulse, thrust_applied |-> FALSE]
    ELSE LET r == AccelerateOrb(o, thrust, dt, sign)
         IN  [facing |-> r.facing, angvel |-> r.angvel, impulse |-> r.impulse,
              thrust_applied |-> r.thrust_applied]

\* a match on the move type that takes the player for granted
MoveSpecAnyway(type, dir) ==
    IF type = "AvoidPit"
    THEN [precondition_failed |-> FALSE,
          reached_goal |-> pitDist # NaN /\ pitDist >= 3 * TileUnits,
          thrust |-> IF pitDist = Infinite THEN ZeroThrust
                     ELSE IF pitDist = 0 \/ pitDist = NaN THEN NaNThrust
                     ELSE Opposite(dir)]
    ELSE [precondition_failed |-> FALSE,
          reached_goal |-> FALSE,
          thrust |-> IF type = "AvoidPlayer" THEN Opposite(dir) ELSE dir]

\* relative_move_action, the match on the move type: dir is the heading
\* from the orb to the pit or the player
MoveSpec(type, dir) ==
    IF type = "AvoidPit"
    THEN [precondition_failed |-> FALSE,
          reached_goal |-> pitDist # NaN /\ pitDist >= 3 * TileUnits,
          thrust |-> IF pitDist = Infinite THEN ZeroThrust
                     ELSE IF pitDist = 0 \/ pitDist = NaN THEN NaNThrust
                     ELSE Opposite(dir)]
    ELSE IF ~playerPresent
    THEN [precondition_failed |-> TRUE, reached_goal |-> FALSE, thrust |-> ZeroThrust]
    ELSE IF type = "AvoidPlayer"
    THEN [precondition_failed |-> FALSE,
          reached_goal |-> playerDist # NaN /\ playerDist >= 3 * TileUnits,
          thrust |-> IF playerDist = 0 \/ playerDist = NaN THEN NaNThrust
                     ELSE Opposite(dir)]
    ELSE [precondition_failed |-> FALSE,
          reached_goal |-> playerDist # NaN /\ playerDist <= 3 * TileUnits,
          thrust |-> IF playerDist = 0 \/ playerDist = NaN THEN NaNThrust ELSE dir]

\* a relative move that computes its thrust anew in every evaluation
RelativeMoveUnlocked(a, o, dir, dt, sign) ==
    LET spec == MoveSpec(a.type, dir)
        thrust == spec.thrust
        r == AccelerateOrbWith(o, thrust, dt, sign)
        same == [state |-> a.state, thrust |-> a.thrust, since |-> a.since,
                 facing |-> o.facing, angvel |-> o.angvel, impulse |-> o.impulse]
    IN  IF spec.precondition_failed
        THEN [same EXCEPT !.state = "Failure"]
        ELSE IF a.state \in {"Requested", "Executing"}
        THEN IF spec.reached_goal
             THEN [same EXCEPT !.state = "Success", !.thrust = thrust]
             ELSE IF ~r.thrust_applied
             THEN [state |-> "Executing", thrust |-> thrust, since |-> a.since,
                   facing |-> r.facing, angvel |-> r.angvel, impulse |-> r.impulse]
             ELSE [state |-> IF a.since + dt >= MinThrustPeriod
                             THEN "Success" ELSE "Executing",
                   thrust |-> thrust, since |-> a.since + dt,
                   facing |-> r.facing, angvel |-> r.angvel, impulse |-> r.impulse]
        ELSE IF a.state = "Cancelled"
        THEN [same EXCEPT !.state = "Failure"]
        ELSE same

\* relative_move_action for one action a of an actor with orb o: the new
\* ActionState, RelativeMove and orb
RelativeMoveMatch(a, o, dir, dt, sign) ==
    LET spec == MoveSpec(a.type, dir)
        thrust == IF a.thrust # NoThrust THEN a.thrust ELSE spec.thrust
        r == AccelerateOrbWith(o, thrust, dt, sign)
        same == [state |-> a.state, thrust |-> a.thrust, since |-> a.since,
                 facing |-> o.facing, angvel |-> o.angvel, impulse |-> o.impulse]
    IN  IF spec.precondition_failed
        THEN [same EXCEPT !.state = "Failure"]
        ELSE IF a.state \in {"Requested", "Executing"}
        THEN IF spec.reached_goal
             THEN [same EXCEPT !.state = "Success", !.thrust = thrust]
             ELSE IF ~r.thrust_applied
             THEN [state |-> "Executing", thrust |-> thrust, since |-> a.since,
                   facing |-> r.facing, angvel |-> r.angvel, impulse |-> r.impulse]
             ELSE [state |-> IF a.since + dt >= MinThrustPeriod
                             THEN "Success" ELSE "Executing",
                   thrust |-> thrust, since |-> a.since + dt,
                   facing |-> r.facing, angvel |-> r.angvel, impulse |-> r.impulse]
        ELSE IF a.state = "Cancelled"
        THEN [same EXCEPT !.state = "Failure"]
        ELSE same

\* a halt that reports Success as soon as it has braked
HaltAtOnce(st, w, v, imp, dt) ==
    LET braked == DecelerateOrb(v, imp, dt)
    IN  IF st \in {"Requested", "Executing"}
        THEN [state |-> "Success", angvel |-> braked.angvel, impulse |-> braked.impulse]
        ELSE IF st = "Cancelled"
        THEN [state |-> "Failure", angvel |-> w, impulse |-> imp]
        ELSE [state |-> st, angvel |-> w, impulse |-> imp]

\* halt_action for one action in state st of an actor with angular velocity
\* w, velocity v and pending impulse imp
HaltMatch(st, w, v, imp, dt) ==
    LET same == [state |-> st, angvel |-> w, impulse |-> imp]
        braked == DecelerateOrb(v, imp, dt)
    IN  IF st = "Requested"
        THEN [state |-> "Executing", angvel |-> braked.angvel, impulse |-> braked.impulse]
        ELSE IF st = "Executing"
        THEN IF w = 0 /\ v = ZeroImpulse
             THEN [same EXCEPT !.state = "Success"]
             ELSE [state |-> "Executing", angvel |-> braked.angvel,
                   impulse |-> braked.impulse]
        ELSE IF st = "Cancelled"
        THEN [same EXCEPT !.state = "Failure"]
        ELSE same

\* the system halt_action in a frame: the actor is looked up among the
\* entities that have the orb components
HaltAction(dt) ==
    /\ steerPhase = "steer"
    /\ act.type = "Halt"
    /\ LET r == IF actor = "orb"
                THEN HaltMatch(act.state, angvel, linvel, impulse, dt)
                ELSE [state |-> act.state, angvel |-> angvel, impulse |-> impulse]
       IN  /\ act' = [act EXCEPT !.state = r.state, !.prev = act.state]
           /\ angvel' = r.angvel
           /\ impulse' = r.impulse
    /\ steerPhase' = "physics"
    /\ UNCHANGED <<facing, linvel, lastCall, lastBrake>>
    /\ UNCHANGED <<collisionVars, frameVars, aiVars>>

\* the system relative_move_action in a frame
RelativeMoveAction(dir, dt, sign) ==
    /\ steerPhase = "steer"
    /\ act.type \in {"AvoidPit", "AvoidPlayer", "ChasePlayer"}
    /\ LET spec == MoveSpec(act.type, dir)
           thrust == IF act.thrust # NoThrust THEN act.thrust ELSE spec.thrust
       IN  sign \in (IF thrust \in Headings THEN Signs(facing, thrust) ELSE {0 - 1})
    /\ LET r == IF actor = "orb"
                THEN RelativeMoveMatch(act, Orb, dir, dt, sign)
                ELSE [state |-> act.state, thrust |-> act.thrust, since |-> act.since,
                      facing |-> facing, angvel |-> angvel, impulse |-> impulse]
       IN  /\ act' = [act EXCEPT !.state = r.state, !.thrust = r.thrust,
                                 !.since = r.since, !.prev = act.state]
           /\ facing' = r.facing
           /\ angvel' = r.angvel
           /\ impulse' = r.impulse
    /\ steerPhase' = "physics"
    /\ UNCHANGED <<linvel, lastCall, lastBrake>>
    /\ UNCHANGED <<collisionVars, frameVars, aiVars>>

\* a frame in which the Thinker has no action for the systems to evaluate,
\* or in which nothing else happens to the orb
NoAct ==
    /\ steerPhase = "steer"
    /\ act.type = "None"
    /\ steerPhase' = "physics"
    /\ UNCHANGED <<facing, angvel, impulse, linvel, lastCall, lastBrake>>
    /\ UNCHANGED <<collisionVars, frameVars, aiVars, actVars>>

\* the velocity after the physics step has applied an impulse that lies
\* along the velocity
Integrated(v, imp) ==
    LET w == Applied(v, imp)
    IN  IF imp = ZeroImpulse THEN v
        ELSE IF w.mag = 0 THEN ZeroImpulse
        ELSE w

\* the physics step of a frame in which only the deceleration impulse acts
\* on the orb
HaltPhysics ==
    /\ steerPhase = "physics"
    /\ act.type = "Halt"
    /\ impulse = ZeroImpulse \/ (impulse.dir = linvel.dir /\ impulse.mag < 0)
    /\ facing' = RotateZ(facing, angvel)
    /\ linvel' = Integrated(linvel, impulse)
    /\ impulse' = ZeroImpulse
    /\ steerPhase' = "steer"
    /\ UNCHANGED <<angvel, lastCall, lastBrake>>
    /\ UNCHANGED <<collisionVars, frameVars, aiVars>>

\* the physics step of a frame in which a thrust or another orb pushes the
\* orb: it ends up at rest or moving along heading 0
PushPhysics(moves) ==
    /\ steerPhase = "physics"
    /\ facing' = RotateZ(facing, angvel)
    /\ linvel' = IF moves THEN [dir |-> 0, mag |-> ACCEL_V] ELSE ZeroImpulse
    /\ impulse' = ZeroImpulse
    /\ steerPhase' = "steer"
    /\ UNCHANGED <<angvel, lastCall, lastBrake>>
    /\ UNCHANGED <<collisionVars, frameVars, aiVars>>

\* the Thinker requests a move: a new action entity, built from the
\* ActionBuilder, in state Requested
Requests(type) ==
    /\ steerPhase = "steer"
    /\ act.state \in {"Init", "Success", "Failure"}
    /\ type \in Moves(kind)
    /\ act' = [type |-> type, state |-> "Requested", thrust |-> NoThrust,
               since |-> 0, prev |-> "None"]
    /\ UNCHANGED <<steerVars, collisionVars, frameVars, aiVars>>

\* the Thinker switches away from the current action
Cancels ==
    /\ steerPhase = "steer"
    /\ act.state \in {"Requested", "Executing"}
    /\ act' = [act EXCEPT !.state = "Cancelled", !.prev = "None"]
    /\ UNCHANGED <<steerVars, collisionVars, frameVars, aiVars>>

\* between two frames the player dies or respawns, the orb falls into a pit
\* and loses the orb component, and the distances change
PlayerDistances == {0, 3 * TileUnits - 1, 3 * TileUnits, 3 * TileUnits + 1}

\* the pit index is empty, or its nearest pit is within three tiles
ActPitDistances == {3 * TileUnits - 1, Infinite}

\* the headings from the orb to the pit or the player: straight ahead of
\* the heading the orb starts with, or almost behind it
Bearings == {0, FullTurn \div 2 - 1}

WorldChanges(a, p, d, pd) ==
    /\ steerPhase = "steer"
    /\ a \in (IF actor = "orb" THEN {"orb", "falling"} ELSE {"falling"})
    /\ <<a, p, d, pd>> # <<actor, playerPresent, playerDist, pitDist>>
    /\ actor' = a
    /\ playerPresent' = p
    /\ playerDist' = d
    /\ pitDist' = pd
    /\ act' = [act EXCEPT !.prev = "None"]
    /\ UNCHANGED <<kind, moving, score, ran, picked, aiPhase>>
    /\ UNCHANGED <<steerVars, collisionVars, frameVars>>

InitAct ==
    /\ InitScene
    /\ InitFrame
    /\ InitOrb
    /\ run = NoRun
    /\ \E k \in Kinds : InitThinker(k)

NextAct ==
    \/ \E dt \in 0 .. MaxDt : HaltAction(dt) /\ UNCHANGED runVars
    \/ \E dir \in Bearings, dt \in 0 .. MaxDt, sign \in {0 - 1, 1} :
           RelativeMoveAction(dir, dt, sign) /\ UNCHANGED runVars
    \/ NoAct /\ UNCHANGED runVars
    \/ HaltPhysics /\ UNCHANGED <<runVars, actVars>>
    \/ \E moves \in BOOLEAN :
           PushPhysics(moves) /\ UNCHANGED <<runVars, actVars>>
    \/ \E type \in {"Halt", "AvoidPit", "AvoidPlayer", "ChasePlayer"} :
           Requests(type) /\ UNCHANGED runVars
    \/ Cancels /\ UNCHANGED runVars
    \/ \E a \in {"orb", "falling"}, p \in BOOLEAN, d \in PlayerDistances,
          pd \in ActPitDistances : WorldChanges(a, p, d, pd) /\ UNCHANGED runVars

SpecAct == InitAct /\ [][NextAct]_vars

(* ------------------------------ a halt run ----------------------------- *)
\* the frames a moving orb needs to come to rest and to report it: every
\* frame with dt >= 1 takes DECEL_V off the speed, and one more evaluation
\* finds the orb at rest
HaltTicks == (MaxSpeed * ACCEL_V + (0 - DECEL_V) - 1) \div (0 - DECEL_V) + 1

\* an inert orb is moving and perhaps tumbling, and its Thinker has just
\* requested Halt
InitHalt ==
    /\ InitScene
    /\ InitFrame
    /\ InitThinker("intransigence")
    /\ facing = 0
    /\ angvel \in {0 - 1, 0, 1}
    /\ linvel \in Velocities \ {ZeroImpulse}
    /\ impulse = ZeroImpulse
    /\ lastCall = NoCall
    /\ lastBrake = NoCall
    /\ steerPhase = "steer"
    /\ run = [running |-> TRUE, ticks |-> 0, speed |-> linvel.mag, spin |-> angvel]

\* the Thinker requests Halt for the moving orb
HaltRequested ==
    /\ run.ticks = 0
    /\ Requests("Halt")
    /\ UNCHANGED run

\* a frame of the run: halt_action is evaluated with a positive dt
HaltTick(dt) ==
    /\ run.ticks <= HaltTicks
    /\ HaltAction(dt)
    /\ run' = [run EXCEPT !.ticks = @ + 1]

\* the physics step of the frame: nothing but the impulse of halt_action
\* acts on the orb
HaltFrame ==
    /\ HaltPhysics
    /\ UNCHANGED <<run, act>>

NextHalt ==
    \/ HaltRequested
    \/ \E dt \in 1 .. MaxDt : HaltTick(dt)
    \/ HaltFrame

SpecHalt == InitHalt /\ [][NextHalt]_vars

(* ----------------------------- a speed run ----------------------------- *)
\* the length cap_player_velocity clamps the velocity to, in units per second
PlayerSpeedCap == 3000

\* steps of dt in a second: a frame of FullTurn steps turns the orb by
\* 4.0 * PI * dt = 2 * PI, so it lasts half a second
StepsPerSecond == 2 * FullTurn

\* the cap in the units of the model's velocities, ACCEL_V * dt per step
SpeedCap == PlayerSpeedCap * StepsPerSecond

\* Vec2::clamp_length_max of a vector of length mag
ClampLengthMax(mag, max) == IF mag > max THEN max ELSE mag

\* an orb at rest that faces the way it is going to thrust: the player with
\* a direction key held down, or an enemy whose relative move is aligned
InitSpeed ==
    /\ InitScene
    /\ InitFrame
    /\ InitOrb
    /\ \E k \in Kinds : InitThinker(k)
    /\ run \in {[running |-> TRUE, who |-> w, ticks |-> 0] : w \in {"player", "enemy"}}

\* move_player on InputEvent::Accelerate, or relative_move_action through
\* accelerate_orb, with the thrust straight ahead
SpeedThrust(dt) ==
    /\ steerPhase = "steer"
    /\ linvel.mag <= SpeedCap
    /\ LET r == IF run.who = "player"
                THEN MovePlayerAccelerate(Orb, facing, dt, 1)
                ELSE AccelerateOrb(Orb, facing, dt, 1)
       IN  /\ facing' = r.facing
           /\ angvel' = r.angvel
           /\ impulse' = r.impulse
    /\ steerPhase' = "cap"
    /\ run' = [run EXCEPT !.ticks = IF @ = 0 THEN 1 ELSE @]
    /\ UNCHANGED <<linvel, lastCall, lastBrake>>
    /\ UNCHANGED nonOrbVars

\* cap_player_velocity: only the orb with the player-control component
CapPlayerVelocity ==
    /\ steerPhase = "cap"
    /\ linvel' = IF run.who = "player"
                 THEN [linvel EXCEPT !.mag = ClampLengthMax(@, SpeedCap)]
                 ELSE linvel
    /\ steerPhase' = "physics"
    /\ UNCHANGED <<facing, angvel, impulse, lastCall, lastBrake, run>>
    /\ UNCHANGED nonOrbVars

\* the physics step applies the pending impulse
SpeedPhysics ==
    /\ steerPhase = "physics"
    /\ linvel' = Integrated(linvel, impulse)
    /\ impulse' = ZeroImpulse
    /\ steerPhase' = "steer"
    /\ UNCHANGED <<facing, angvel, lastCall, lastBrake, run>>
    /\ UNCHANGED nonOrbVars

NextSpeed ==
    \/ \E dt \in 1 .. MaxDt : SpeedThrust(dt)
    \/ CapPlayerVelocity
    \/ SpeedPhysics

SpecSpeed == InitSpeed /\ [][NextSpeed]_vars

(* ============================ scorer claims ============================ *)
AllScorers == {"Flee", "Charge", "ExperiencingInertia", "NearPit"}

\* the scorer systems of the frame have all run
ScorersRan == aiPhase = "score" /\ ran = AllScorers

\* C14: every scorer value (Flee, Charge, ExperiencingInertia, NearPit) is
\* within 0.0 and 1.0 and never NaN or negative, whatever the positions:
\* orb and player at the same place, arbitrarily far apart, a distance that
\* is NaN, or an empty pit index.
C14_ScoresInUnitRange ==
    /\ score.flee \in 0 .. ScoreOne
    /\ score.charge \in 0 .. ScoreOne
    /\ score.inertia \in 0 .. ScoreOne
    /\ score.nearPit \in 0 .. ScoreOne

\* the scorers of a malicious orb have run with the player arbitrarily far
\* and no pit in the index
C14_Witness ==
    /\ ScorersRan
    /\ kind = "malice"
    /\ actor = "orb"
    /\ playerPresent
    /\ playerDist = Infinite
    /\ pitDist = Infinite
    /\ score.charge = ScoreOne
    /\ score.nearPit = 0

\* C15: the Flee score is clamp(3 - d, 0, 3) / 3 for a distance of d tiles
\* to the player: 1.0 at distance zero, 0.5 at one and a half tiles, 0.0 at
\* three tiles and at every distance beyond.
C15_FleeTable ==
    (ScorersRan /\ kind = "cowardice" /\ playerPresent /\ playerDist # NaN)
        => /\ playerDist = 0 => score.flee = ScoreOne
           /\ 2 * playerDist = 3 * TileUnits => 2 * score.flee = ScoreOne
           /\ playerDist >= 3 * TileUnits => score.flee = 0
           /\ playerDist \in 0 .. 3 * TileUnits
                  => 3 * TileUnits * score.flee
                         = (3 * TileUnits - playerDist) * ScoreOne

\* the flee scorer of a cowardly orb has run at one and a half tiles from
\* the player
C15_Witness ==
    /\ ScorersRan
    /\ kind = "cowardice"
    /\ playerPresent
    /\ 2 * playerDist = 3 * TileUnits
    /\ 2 * score.flee = ScoreOne

\* C16: when no player exists, the Flee and Charge scores are zero once the
\* scorers of the frame have run; neither keeps a positive value from an
\* earlier frame.
C16_NoPlayerNoScore ==
    (ScorersRan /\ ~playerPresent) => (score.flee = 0 /\ score.charge = 0)

\* the scorers have run without a player and a Flee score of an earlier
\* frame is still there
C16_StaleScore ==
    /\ ScorersRan
    /\ ~playerPresent
    /\ kind = "cowardice"
    /\ score.flee = ScoreOne

(* ============================ picker claims ============================ *)
\* C17: for a cowardly or malicious orb, whenever the NearPit score is at
\* least 0.5 the Thinker picks the avoid-pit move, whatever the Flee, Charge
\* and ExperiencingInertia scores are; the Highest picker of the
\* otherwise-Thinker is asked only when NearPit is below the threshold.
C17_PitFirst ==
    (picked.fresh /\ kind \in {"cowardice", "malice"})
        => /\ score.nearPit >= Threshold => picked.action = "AvoidPit"
           /\ picked.otherwise => score.nearPit < Threshold

\* a cowardly orb near a pit, on top of the player and moving, has picked
\* the avoid-pit move
C17_Witness ==
    /\ picked.fresh
    /\ kind = "cowardice"
    /\ score.nearPit = ScoreOne
    /\ score.flee = ScoreOne
    /\ score.inertia > 0
    /\ picked.action = "AvoidPit"
    /\ ~picked.otherwise

(* ========================= action system claims ======================== *)
\* the orb is at rest: no linear and no angular velocity
AtRest == linvel = ZeroImpulse /\ angvel = 0

C19_CancelledFails == act.prev = "Cancelled" => act.state = "Failure"

\* the action system has evaluated the Cancelled action of an actor without
\* orb components, and the action is still Cancelled
C19_StillCancelled ==
    /\ act.prev = "Cancelled"
    /\ act.state = "Cancelled"
    /\ actor = "falling"

\* C20: evaluating an action system never changes an action that is in a
\* terminal state: Success stays Success and Failure stays Failure, in every
\* world state, also when the player is absent.
C20_TerminalStays ==
    act.prev \in {"Success", "Failure"} => act.state = act.prev

\* relative_move_action has evaluated a Success action without a player and
\* left it in Failure
C20_SuccessUndone ==
    /\ act.prev = "Success"
    /\ act.state = "Failure"
    /\ ~playerPresent
    /\ act.type \in {"AvoidPlayer", "ChasePlayer"}

\* a step in which the action systems evaluate the current action
Evaluated == steerPhase = "steer" /\ steerPhase' = "physics"

\* the action is a move relative to the player
PlayerMove == act.type \in {"AvoidPlayer", "ChasePlayer"}

\* C21: a Move-away or Move-toward action in Requested or Executing that
\* is evaluated while no player exists becomes Failure in that evaluation,
\* and no control law is applied: rotation, velocity and impulse of the orb
\* and the locked thrust and elapsed duration of the action are unchanged.
C21_NoPlayerFails ==
    [][(/\ Evaluated
        /\ actor = "orb"
        /\ PlayerMove
        /\ act.state \in {"Requested", "Executing"}
        /\ ~playerPresent)
           => (/\ act'.state = "Failure"
               /\ facing' = facing
               /\ angvel' = angvel
               /\ linvel' = linvel
               /\ impulse' = impulse
               /\ act'.thrust = act.thrust
               /\ act'.since = act.since)]_vars

\* an Executing move with a locked thrust has been evaluated without a
\* player and is Failure, the thrust still locked
C21_Witness ==
    /\ steerPhase = "physics"
    /\ actor = "orb"
    /\ PlayerMove
    /\ ~playerPresent
    /\ act.prev = "Executing"
    /\ act.state = "Failure"
    /\ act.thrust \in Headings
    /\ impulse = ZeroImpulse

\* C22: an Avoid-pit action evaluated while the pit index is empty fails
\* its precondition: its state becomes Failure in that evaluation and no
\* control law is applied.
C22_NoPitsFails ==
    [][(/\ Evaluated
        /\ actor = "orb"
        /\ act.type = "AvoidPit"
        /\ act.state \in {"Requested", "Executing"}
        /\ pitDist = Infinite)
           => (/\ act'.state = "Failure"
               /\ facing' = facing
               /\ angvel' = angvel
               /\ impulse' = impulse)]_vars

\* a Requested Avoid-pit action has been evaluated with an empty pit index
\* and is Success
C22_SuccessWithoutPits ==
    /\ steerPhase = "physics"
    /\ actor = "orb"
    /\ act.type = "AvoidPit"
    /\ pitDist = Infinite
    /\ act.prev = "Requested"
    /\ act.state = "Success"
    /\ act.thrust = ZeroThrust

\* C23: at the end of every tick (after movement, velocity capping and the
\* physics step that applies the pending impulse) the linear speed of every
\* agent, the player and the AI enemies alike, is at most 3000 units per
\* second.
C23_SpeedCapped ==
    (run.ticks > 0 /\ steerPhase = "steer") => linvel.mag <= SpeedCap

\* an enemy ends a tick faster than the cap
C23_EnemyTooFast ==
    /\ steerPhase = "steer"
    /\ run.who = "enemy"
    /\ linvel.mag > SpeedCap

\* the precondition of the current action holds: only the moves relative
\* to the player have one
PreconditionHolds == PlayerMove => playerPresent

\* C24: evaluating an action in Requested whose precondition holds applies
\* the control law once and leaves the action in Executing; a Requested
\* action never goes to Success in its first evaluation.
C24_RequestedExecutes ==
    [][(/\ Evaluated
        /\ actor = "orb"
        /\ act.type # "None"
        /\ act.state = "Requested"
        /\ PreconditionHolds)
           => act'.state = "Executing"]_vars

\* a Requested Move-toward action was evaluated within three tiles of the
\* player and is Success, no control law applied
C24_SuccessAtOnce ==
    /\ steerPhase = "physics"
    /\ actor = "orb"
    /\ act.type = "ChasePlayer"
    /\ playerPresent
    /\ playerDist <= 3 * TileUnits
    /\ act.prev = "Requested"
    /\ act.state = "Success"
    /\ act.since = 0
    /\ impulse = ZeroImpulse

\* the goal-reached predicate of the current action: the orb at rest for
\* Halt, reached_goal for a relative move
GoalReached ==
    IF act.type = "Halt" THEN AtRest ELSE MoveSpec(act.type, 0).reached_goal

\* C25: an Executing action goes to Success only in an evaluation in which
\* its goal-reached predicate holds; in every evaluation in which it does
\* not hold the control law is applied again and the action stays
\* Executing.
C25_SuccessOnlyAtGoal ==
    [][(/\ Evaluated
        /\ actor = "orb"
        /\ act.type # "None"
        /\ act.state = "Executing"
        /\ PreconditionHolds)
           => (/\ act'.state = "Success" => GoalReached
               /\ ~GoalReached => act'.state = "Executing")]_vars

\* an Executing Move-away action is Success after an evaluation within
\* three tiles of the player
C25_SuccessShortOfGoal ==
    /\ steerPhase = "physics"
    /\ actor = "orb"
    /\ act.type = "AvoidPlayer"
    /\ playerPresent
    /\ playerDist < 3 * TileUnits
    /\ act.prev = "Executing"
    /\ act.state = "Success"
    /\ act.since >= MinThrustPeriod

\* the current action is a relative move
RelativeMoveType == act.type \in {"AvoidPit", "AvoidPlayer", "ChasePlayer"}

\* C26: a relative move (Avoid-pit, Move-away, Move-toward) is never
\* Success before it has accumulated the minimum thrust duration of 100 ms
\* in ticks in which thrust was applied.
C26_SuccessAfterThrust ==
    (RelativeMoveType /\ act.state = "Success") => act.since >= MinThrustPeriod

\* an Executing relative move that has thrust for less than the minimum
\* period is Success
C26_SuccessTooSoon ==
    /\ RelativeMoveType
    /\ act.prev = "Executing"
    /\ act.state = "Success"
    /\ act.since > 0
    /\ act.since < MinThrustPeriod

\* C27: for one relative-move action, the thrust handed to the steering law
\* in every evaluation after the first is the direction computed in the
\* first one (the locked direction), however the orb, the player or the
\* nearest pit have moved since: the locked thrust never changes, and an
\* impulse written by the steering law points along it.
C27_ThrustLocked ==
    [][(/\ Evaluated
        /\ RelativeMoveType
        /\ act.thrust # NoThrust)
           => (/\ act'.thrust = act.thrust
               /\ (impulse' # impulse /\ act.thrust \in Headings)
                      => impulse'.dir = act.thrust)]_vars

\* a Move-away action that locked a heading thrusts along it in a tick in
\* which the player is on top of the orb, where the direction computed
\* anew would be NaN
C27_Witness ==
    /\ steerPhase = "physics"
    /\ actor = "orb"
    /\ act.type = "AvoidPlayer"
    /\ playerPresent
    /\ playerDist = 0
    /\ act.prev = "Executing"
    /\ act.thrust \in Headings
    /\ impulse # ZeroImpulse
    /\ impulse # NaNVector
    /\ impulse.dir = act.thrust

\* C28: the working state of a relative move (locked thrust and elapsed
\* duration) is released when the action goes from Cancelled to Failure and
\* is reset whenever the action is requested, so that every Requested
\* action starts with no locked thrust and zero elapsed duration.
C28_WorkingStateReleased ==
    /\ (RelativeMoveType /\ act.prev = "Cancelled" /\ act.state = "Failure")
           => (act.thrust = NoThrust /\ act.since = 0)
    /\ (RelativeMoveType /\ act.state = "Requested")
           => (act.thrust = NoThrust /\ act.since = 0)

\* a cancelled relative move has been finalized to Failure and still holds
\* its locked thrust and its elapsed duration
C28_StillLocked ==
    /\ RelativeMoveType
    /\ act.prev = "Cancelled"
    /\ act.state = "Failure"
    /\ act.thrust \in Headings
    /\ act.since > 0

\* C29: the goal of Move-away is reached only at a distance to the player
\* strictly greater than three tiles, that of Move-toward at three tiles or
\* less, so at exactly three tiles Move-away has not reached its goal and
\* the two predicates differ.
C29_FleeGoalIsStrict ==
    playerPresent
        => /\ MoveSpec("AvoidPlayer", 0).reached_goal <=> playerDist > 3 * TileUnits
           /\ MoveSpec("ChasePlayer", 0).reached_goal <=> playerDist <= 3 * TileUnits
           /\ (/\ act.type = "AvoidPlayer"
               /\ act.prev = "Requested"
               /\ act.state = "Success"
               /\ act.since = 0) => playerDist > 3 * TileUnits

\* a Requested Move-away action was evaluated at exactly three tiles from
\* the player and is Success without having thrust
C29_GoalAtThreeTiles ==
    /\ steerPhase = "physics"
    /\ actor = "orb"
    /\ playerPresent
    /\ playerDist = 3 * TileUnits
    /\ act.type = "AvoidPlayer"
    /\ act.prev = "Requested"
    /\ act.state = "Success"
    /\ act.since = 0

(* ============================ braking claims =========================== *)
\* C30: whenever the deceleration law is applied to an orb whose linear
\* velocity is exactly zero, no impulse is applied: the pending impulse is
\* left as it was and never becomes NaN, for an AI agent (Halt) and for the
\* brake input of the player alike.
C30_NoImpulseAtRest ==
    (steerPhase = "physics" /\ lastBrake.called /\ lastBrake.linvel = ZeroImpulse)
        => (impulse = lastBrake.impulse /\ impulse # NaNVector)

\* the player braked at rest and the pending impulse is NaN
C30_NaNImpulse ==
    /\ steerPhase = "physics"
    /\ lastBrake.called
    /\ lastBrake.by = "move_player"
    /\ lastBrake.linvel = ZeroImpulse
    /\ lastBrake.dt > 0
    /\ impulse = NaNVector

(* ==================== caches, schedule and fall claims ================= *)
\* the shapes the role cache names that are no longer in the scene
StaleShapes == (wall_colliders \cup pit_colliders \cup orb_colliders) \ Colliders

\* C31: in every reachable state, after any sequence of level loads, reloads
\* and invalidations, the wall, pit and actor role sets are pairwise
\* disjoint: every shape id is in at most one of them.
C31_RolesDisjoint ==
    /\ wall_colliders \cap pit_colliders = {}
    /\ wall_colliders \cap orb_colliders = {}
    /\ pit_colliders \cap orb_colliders = {}

\* the cache was rebuilt after a reload: the three role sets each hold
\* shapes of the level that was replaced and shapes of the new one
C31_Witness ==
    /\ phase = "update"
    /\ loads = 2
    /\ lastRebuilds = 1
    /\ \A set \in {wall_colliders, pit_colliders, orb_colliders} :
           set \cap StaleShapes # {} /\ set \cap Colliders # {}

\* C32: the collider-role cache and the pit index change only in the run of
\* their own cache system, and only when that run reads at least one event
\* of their own invalidation signal: every other step of a frame (level
\* loading, the classification pass, the dispatch, the despawns and a cache
\* run that reads no such signal) leaves them as they were.
C32_CachesChangeOnSignal ==
    [][/\ Cache' # Cache =>
              phase = "post" /\ NumInvalidations(cacheEvents) > 0
       /\ levelPits' # levelPits =>
              phase = "pits" /\ NumPitInvalidations(cacheEvents) > 0]_vars

\* a frame without a signal has ended after an orb fell in a pit: the scene
\* has changed, neither cache was rebuilt and the orb set still holds the
\* shapes the fallen orb had
C32_Witness ==
    /\ phase = "update"
    /\ loads > 0
    /\ sceneChanged
    /\ lastRebuilds = 0
    /\ lastPitRebuilds = 0
    /\ levelPits # <<>>
    /\ orb_colliders \ ChildrenOfAll(actors) # {}

\* how many elements of the pit index are the location loc
CountLoc(loc) == Cardinality({i \in 1 .. Len(levelPits) : levelPits[i] = loc})

\* C33: right after a run of cache_pit_locs that rebuilt the pit index, the
\* index holds the location of every Pit tile of the scene once for each
\* such tile and nothing else; the unread events always hold as many
\* invalidations of the pit index as of the collider cache, and at the end
\* of a frame the two caches were rebuilt together or not at all.
C33_PitIndexIsExact ==
    /\ (phase = "post" /\ lastPitRebuilds > 0) =>
           /\ Len(levelPits) = Cardinality(PitTiles)
           /\ \A i \in 1 .. Len(levelPits) :
                  CountLoc(levelPits[i]) =
                      Cardinality({t \in PitTiles : Translation(t) = levelPits[i]})
    /\ NumPitInvalidations(cacheEvents) = NumInvalidations(cacheEvents)
    /\ phase = "update" => lastPitRebuilds = lastRebuilds

\* the pit index was rebuilt for several signals read in one frame after a
\* reload: it holds the pit of the new level only
C33_Witness ==
    /\ phase = "post"
    /\ lastPitRebuilds = 1
    /\ loads = 2
    /\ NumPitInvalidations(cacheEvents) >= 2
    /\ PitTiles # {}
    /\ levelPits = <<loads - 1>>

(* --------------------------- the frame schedule ------------------------ *)
\* The executor of a schedule runs the systems whose run condition holds, in
\* any order that respects the before/after constraints, and applies the
\* commands the systems queued when the schedule has ended.  A frame runs
\* PreUpdate, applies the pending state transition, then runs Update and
\* PostUpdate.
ScorerSystems == {"moving_scorer", "near_pit_scorer", "flee_scorer", "charge_scorer"}

ActionSystems == {"relative_move_action", "halt_action"}

PlayingSystems ==
    {"keyboard_input", "move_player", "cap_player_velocity", "detect_collisions",
     "trigger_interaction", "die_after_fall", "become_tangible",
     "respawn_after_death"}

LoadingSystems == {"init_cells", "detect_loaded"}

\* the systems of a schedule; step_simulation is the physics step of the
\* RapierPhysicsPlugin, which the plugin adds to PostUpdate
SystemsOf(sch) ==
    IF sch = "PreUpdate" THEN ScorerSystems \cup {"thinker_system"} \cup ActionSystems
    ELSE IF sch = "Update" THEN PlayingSystems \cup LoadingSystems
    ELSE {"step_simulation", "cache_collider_hierarchy", "cache_pit_locs"}

\* run_if(in_state(..))
RunCondition(s, st) ==
    IF s \in PlayingSystems THEN st = "Playing"
    ELSE IF s \in LoadingSystems THEN st = "Loading"
    ELSE TRUE

\* the pairs <<a, b>> with a.before(b) or b.after(a); the sets of
\* BigBrainPlugin are ordered Scorers, Thinkers, Actions
Before ==
    {<<"keyboard_input", "move_player">>, <<"move_player", "cap_player_velocity">>,
     <<"detect_collisions", "trigger_interaction">>}
    \cup (ScorerSystems \X {"thinker_system"})
    \cup ({"thinker_system"} \X ActionSystems)

\* an executor that ignores the ordering constraints
ReadyUnordered(s) ==
    /\ s \in SystemsOf(schedule) \ ranSystems
    /\ RunCondition(s, appState)

\* the system can run now
Ready(s) ==
    /\ s \in SystemsOf(schedule) \ ranSystems
    /\ RunCondition(s, appState)
    /\ \A e \in Before :
           (e[2] = s /\ RunCondition(e[1], appState)) => e[1] \in ranSystems

\* a hook that solves every pair
SolveEveryPair(marked) == "solved"

\* Hooks::filter_contact_pair for a pair of the falling collider and a pit
\* wall: None when a collider of the pair carries Intangible
FilterContactPair(marked) == IF marked THEN "filtered" ELSE "solved"

\* trigger_interaction dispatches a pit entry or not: the entry queues the
\* spawn of the falling collider (one orb falls at a time)
TriggerQueues(fell) ==
    /\ queued' = IF fell /\ intangible = "none"
                 THEN queued \cup {"spawn_falling_orb"} ELSE queued
    /\ UNCHANGED <<nextState, frames, markerSeen, lastContact>>

\* die_after_fall reads a TweenCompleted of the falling orb or not
DieQueues(completed) ==
    /\ queued' = IF completed /\ intangible # "none"
                 THEN queued \cup {"despawn_recursive"} ELSE queued
    /\ UNCHANGED <<nextState, frames, markerSeen, lastContact>>

\* become_tangible
BecomeTangible ==
    /\ IF intangible = "marked"
       THEN /\ markerSeen' = markerSeen + 1
            /\ IF frames = 0
               THEN /\ queued' = queued \cup {"remove_intangible"}
                    /\ UNCHANGED frames
               ELSE /\ frames' = frames - 1
                    /\ UNCHANGED queued
       ELSE UNCHANGED <<queued, frames, markerSeen>>
    /\ UNCHANGED <<nextState, lastContact>>

\* respawn_after_death and detect_loaded set NextState or not
SetsNextState(set, st) ==
    /\ nextState' = IF set THEN st ELSE nextState
    /\ UNCHANGED <<queued, frames, markerSeen, lastContact>>

\* the physics step: the falling collider touches a pit wall or not
StepSimulation(contact) ==
    /\ lastContact' = IF contact /\ intangible # "none"
                      THEN FilterContactPair(intangible = "marked") ELSE "none"
    /\ UNCHANGED <<nextState, queued, frames, markerSeen>>

\* the executor runs one system that is ready
RunSystem(s) ==
    /\ Ready(s)
    /\ ranSystems' = ranSystems \cup {s}
    /\ IF s = "trigger_interaction" THEN \E fell \in BOOLEAN : TriggerQueues(fell)
       ELSE IF s = "die_after_fall" THEN \E completed \in BOOLEAN : DieQueues(completed)
       ELSE IF s = "become_tangible" THEN BecomeTangible
       ELSE IF s = "respawn_after_death" THEN \E set \in BOOLEAN : SetsNextState(set, "Loading")
       ELSE IF s = "detect_loaded" THEN \E set \in BOOLEAN : SetsNextState(set, "Playing")
       ELSE IF s = "step_simulation" THEN \E contact \in BOOLEAN : StepSimulation(contact)
       ELSE UNCHANGED <<nextState, queued, frames, markerSeen, lastContact>>
    /\ UNCHANGED <<appState, schedule, intangible>>
    /\ UNCHANGED <<collisionVars, steerVars, runVars, aiVars, actVars>>

\* the schedule has ended: the queued commands are applied, and after
\* PreUpdate the pending state transition
EndSchedule ==
    /\ \A s \in SystemsOf(schedule) : RunCondition(s, appState) => s \in ranSystems
    /\ intangible' = IF "despawn_recursive" \in queued THEN "none"
                     ELSE IF "spawn_falling_orb" \in queued THEN "marked"
                     ELSE IF "remove_intangible" \in queued THEN "tangible"
                     ELSE intangible
    /\ frames' = IF "spawn_falling_orb" \in queued THEN IntangibleFrames ELSE frames
    /\ markerSeen' = IF "spawn_falling_orb" \in queued THEN 0 ELSE markerSeen
    /\ queued' = {}
    /\ IF schedule = "PreUpdate"
       THEN /\ appState' = IF nextState = "None" THEN appState ELSE nextState
            /\ nextState' = "None"
       ELSE UNCHANGED <<appState, nextState>>
    /\ schedule' = IF schedule = "PreUpdate" THEN "Update"
                   ELSE IF schedule = "Update" THEN "PostUpdate"
                   ELSE "PreUpdate"
    /\ ranSystems' = IF schedule = "PostUpdate" THEN {} ELSE ranSystems
    /\ UNCHANGED lastContact
    /\ UNCHANGED <<collisionVars, steerVars, runVars, aiVars, actVars>>

NextFrame ==
    \/ \E s \in SystemsOf(schedule) : RunSystem(s)
    \/ EndSchedule

SpecFrame == Init /\ [][NextFrame]_vars

\* the order of the systems stated for a frame: scoring before the AI
\* actions, the AI actions and move_player before the velocity cap, the cap
\* before the physics step, classification before dispatch and before the
\* two cache systems
StatedOrder ==
    (ScorerSystems \X ActionSystems)
    \cup ((ActionSystems \cup {"move_player"}) \X {"cap_player_velocity"})
    \cup {<<"cap_player_velocity", "step_simulation">>,
          <<"detect_collisions", "trigger_interaction">>,
          <<"detect_collisions", "cache_collider_hierarchy">>,
          <<"detect_collisions", "cache_pit_locs">>}

\* C34: within every frame, whenever the later system of a stated pair has
\* run, the earlier system of the pair has already run in this frame, unless
\* its run condition kept it from running at all.
C34_SystemOrder ==
    \A e \in StatedOrder :
        (e[2] \in ranSystems /\ RunCondition(e[1], appState)) => e[1] \in ranSystems

\* a Playing frame in which every system of the three schedules has run
C34_Witness ==
    /\ appState = "Playing"
    /\ schedule = "PostUpdate"
    /\ ranSystems = SystemsOf("PreUpdate") \cup PlayingSystems \cup SystemsOf("PostUpdate")

(* ------------------------ the classifier on its own -------------------- *)
\* A classification pass in a level with a second pit tile, after a reload:
\* the role cache was rebuilt for the first level and again for this one, so
\* it holds the shapes of both, and the shapes of the first level are gone.
SecondPit == LevelBase(2)

InitClassify ==
    /\ tile = LevelTiles(LevelBase(1)) @@ (SecondPit :> "Pit")
    /\ actors = LevelActors(LevelBase(1))
    /\ parent = LevelParents(LevelBase(1)) @@ ((SecondPit + 1) :> SecondPit)
    /\ animator = << >>
    /\ disabled = {}
    /\ loads = 2
    /\ wall_colliders = {1} \cup ChildrenOfAll(WallTiles)
    /\ pit_colliders = {3, 4} \cup ChildrenOfAll(PitTiles)
    /\ orb_colliders = {6, 7} \cup ChildrenOfAll(actors)
    /\ cacheEvents = <<>>
    /\ fallen_orbs = {}
    /\ output = <<>>
    /\ outSrc = <<>>
    /\ nRead = 0
    /\ warnings = 0
    /\ pitContacts = {}
    /\ epochEntered = << >>
    /\ completions = [next |-> 0, killers |-> << >>]
    /\ lastRebuilds = 1
    /\ lastSignals = 1
    /\ lastIdle = FALSE
    /\ sceneChanged = FALSE
    /\ phase = "detect"
    /\ levelPits = Pushed(<<>>, PitTiles)
    /\ lastPitRebuilds = 1
    /\ InitFrame
    /\ InitOrb
    /\ run = NoRun
    /\ InitThinker("intransigence")

NextClassify ==
    \E e1 \in ContactShapes, e2 \in ContactShapes :
        ContactStep(e1, e2, ClassifyContacts, ClassifyContacts)

SpecClassify == InitClassify /\ [][NextClassify]_vars

\* the shape of the contact that is not the pit shape, for a contact of a
\* pit shape with a shape outside the pit role
IsPitContact(p, x) == p \in pit_colliders /\ x \notin pit_colliders

\* C35: whatever contact the pass reads next, the dedup set grows only by
\* the shape whose pit-entry event the contact sends; a pit contact whose
\* parent lookup fails leaves the dedup set as it was, and a pit contact of
\* the same shape read after it, in either order of the pair, whose parents
\* resolve sends the pit-entry event of that shape.
C35_MarkedOnlyWhenEmitted ==
    phase = "detect" =>
        \A e1 \in ContactShapes : \A e2 \in ContactShapes \ {e1} :
            LET r == ClassifyStep(fallen_orbs, e1, e2)
            IN  /\ r.fallen # fallen_orbs =>
                       /\ Len(r.ev) = 1 /\ IsEnterPit(r.ev[1])
                       /\ \E x \in {e1, e2} :
                              /\ r.fallen = fallen_orbs \cup {x}
                              /\ r.ev[1].actor = parent[x]
                /\ ~HasParents(e1, e2) => r.fallen = fallen_orbs
                /\ (/\ ~HasParents(e1, e2)
                    /\ (IsPitContact(e1, e2) \/ IsPitContact(e2, e1))) =>
                       LET x == IF IsPitContact(e1, e2) THEN e2 ELSE e1
                       IN  \A p \in pit_colliders :
                               (HasParents(p, x) /\ x \notin fallen_orbs) =>
                                   /\ ClassifyStep(r.fallen, p, x).ev
                                          = <<EnterPit(parent[x], parent[p])>>
                                   /\ ClassifyStep(r.fallen, x, p).ev
                                          = <<EnterPit(parent[x], parent[p])>>

\* a pass read a pit contact of an orb shape with a pit shape of the level
\* that was replaced, which logged a warning, and then a contact of the same
\* orb shape with a pit shape of this level, which sent the pit-entry event
C35_Witness ==
    /\ phase = "detect"
    /\ nRead = 2
    /\ warnings = 1
    /\ outSrc = <<2>>
    /\ IsEnterPit(output[1])
    /\ \E x \in orb_colliders \cap Colliders :
           fallen_orbs = {x} /\ output[1].actor = parent[x]

\* the kind of event an iteration sends, and the actor it names if any
EventKind(r) == IF r.ev = <<>> THEN "none" ELSE r.ev[1].type

NamedActor(r) ==
    IF r.ev # <<>> /\ IsEnterPit(r.ev[1]) THEN {r.ev[1].actor} ELSE {}

\* C36: whatever contact the pass reads next, the contact with its two
\* shapes swapped sends the same kind of event (or none either way) and,
\* when that is a pit-entry event, names the same actor entity.
C36_OrderIndependent ==
    phase = "detect" =>
        \A e1 \in ContactShapes : \A e2 \in ContactShapes \ {e1} :
            LET r == ClassifyStep(fallen_orbs, e1, e2)
                q == ClassifyStep(fallen_orbs, e2, e1)
            IN  EventKind(r) = EventKind(q) /\ NamedActor(r) = NamedActor(q)

\* the pass sent two pit-entry events that name the two pit tiles as the
\* fallen actor of each other
C36_Witness ==
    /\ phase = "detect"
    /\ Len(output) = 2
    /\ IsEnterPit(output[1])
    /\ IsEnterPit(output[2])
    /\ output[1].actor \in PitTiles
    /\ output[2].actor \in PitTiles
    /\ output[1].actor = output[2].pit
    /\ output[1].pit = output[2].actor
    /\ output[1].actor # output[1].pit

\* the physics step of this frame has run
Stepped == schedule = "PostUpdate" /\ "step_simulation" \in ranSystems

\* C37: the frame counter of the falling collider stays within 0 and 5 and,
\* while the collider carries the Intangible marker, is 5 less the number of
\* Playing frames whose become_tangible found the marker; the run that finds
\* the counter at 0 queues the removal, which is applied before the physics
\* step of that frame; every physics step filters the contact of the
\* collider with a pit wall while the marker is there and solves it once the
\* marker is gone.
C37_IntangibleWhileMarked ==
    /\ frames \in 0 .. IntangibleFrames
    /\ intangible = "marked" =>
           \/ markerSeen <= IntangibleFrames /\ frames = IntangibleFrames - markerSeen
           \/ /\ markerSeen = IntangibleFrames + 1
              /\ frames = 0
              /\ schedule = "Update"
              /\ "remove_intangible" \in queued
    /\ intangible = "tangible" => markerSeen = IntangibleFrames + 1 /\ frames = 0
    /\ (Stepped /\ lastContact # "none") =>
           lastContact = IF intangible = "marked" THEN "filtered" ELSE "solved"

\* the marker was removed in this frame, after six Playing frames, and the
\* physics step of the frame solved the contact of the falling collider
C37_Witness ==
    /\ Stepped
    /\ "become_tangible" \in ranSystems
    /\ intangible = "tangible"
    /\ markerSeen = IntangibleFrames + 1
    /\ lastContact = "solved"

\* C38: every registered completion id is below the next id to hand out, so
\* an id is never handed out twice; a pit is disabled only while a
\* completion id is registered for it; and once no fall animation is
\* pending, no pit is disabled and the registry is empty.
C38_AllFallsSettle ==
    /\ \A id \in DOMAIN completions.killers : id < completions.next
    /\ \A p \in disabled \cap PitTiles :
           \E id \in DOMAIN completions.killers : completions.killers[id] = p
    /\ animator = << >> =>
           /\ completions.killers = << >>
           /\ disabled \cap PitTiles = {}

\* the orb entered the pit once, its animation completed and die_after_fall
\* despawned it: the pit is enabled again and the registry is empty
C38_Witness ==
    /\ phase = "pits"
    /\ completions = [next |-> 1, killers |-> << >>]
    /\ animator = << >>
    /\ actors = {}
    /\ DOMAIN tile = {0, 2}
    /\ disabled = {}

====
